---- MODULE Spec2Model ----
(***************************************************************************)
(* honeybeePF user-space agent: the probe lifecycle controller             *)
(* (HoneyBeeEngine::run / run_llm_discovery), exec-driven SSL library      *)
(* discovery, the ring-buffer drainer workers, and the per-(pid,tid) TLS   *)
(* stream processor (StreamProcessor::handle_event); and the kernel-side   *)
(* probes with their pending maps.                                         *)
(*                                                                         *)
(* The specifications share the variables:                                 *)
(*   Spec             discovery: the controller loop, the exec watch and   *)
(*                    the host;                                            *)
(*   ShutdownSpec     the controller with every drainer thread, the ring   *)
(*                    buffers and the interrupt signal (FairShutdownSpec   *)
(*                    adds the scheduling fairness);                       *)
(*   ProcSpec         one StreamProcessor driven through handle_event;     *)
(*   SslSpec          the SSL_EVENTS handler over the stream map, and the  *)
(*                    sweeper;                                             *)
(*   SweepSpec        the same with a clock that also advances by seconds; *)
(*   StormSpec        the discovery loop behind a full exec queue          *)
(*                    (FairStormSpec adds the scheduling fairness);        *)
(*   StartupSpec      HoneyBeeEngine::new followed by run;                 *)
(*   KernSpec         the kernel entry/exit probes and their pending maps; *)
(*   RingSpec         one ring buffer and its spawn_ringbuf_handler loop;  *)
(*   HashSpec         the watched-path hash, user side and kernel side;    *)
(*   ChunkSpec        decode_chunked_body applied twice;                   *)
(*   JsonSpec         extract_h2_json_all on two objects and filler bytes; *)
(*   ResolverSpec     PodResolver: resolve, the pod watcher, the cleanup;  *)
(*   ThresholdSpec    attach_probes for the probes with a threshold;       *)
(*   FindSpec         ProviderRegistry::find_provider;                     *)
(*   UsageSpec        parse_response_json_value with the built-in          *)
(*                    providers;                                           *)
(*   CgroupSpec       parse_container_id_from_cgroup_line;                 *)
(*   RegistrySpec     load_provider_registry behind the two statics.       *)
(***************************************************************************)
EXTENDS Integers, Sequences, FiniteSets, TLC

(***************************************************************************)
(* Bounds of the model                                                     *)
(***************************************************************************)
\* number of process exec()s the host performs in one behaviour of Spec
MaxExecs == 2
\* number of process exec()s the host performs in one behaviour of ShutdownSpec
MaxShutdownExecs == 1
\* number of interrupt signals delivered in one behaviour
MaxSignals == 1
\* frames pending in the SSL_EVENTS / FILE_ACCESS_EVENTS ring buffers
MaxRing == 1

\* events handed to the StreamProcessor in one behaviour of ProcSpec
MaxProcEvents == 4
\* frames delivered by SSL_EVENTS in one behaviour of SslSpec
MaxSslEvents == 3
\* exec()s the host performs in one behaviour of StormSpec, after the storm
MaxStormExecs == 1
\* idle periods (of CONNECTION_RETENTION_SECS each) in one behaviour of SslSpec
MaxIdlePeriods == 1
\* probed calls the threads make in one behaviour of KernSpec
MaxKernelCalls == 3
\* calls of vfs_read / vfs_write the threads make in one behaviour of VfsSpec
MaxVfsCalls == 2
\* SSL probes that run in one behaviour of SessionSpec
MaxSslProbes == 4
\* frames submitted to the ring buffer in one behaviour of RingSpec
MaxFrames == 4
\* HashSpec watches every path of at most this many bytes
MaxShortLen == 3
\* ChunkSpec decodes the encodings of every payload of at most this many bytes
MaxPayloadLen == 4
\* single seconds that pass in a row in SweepSpec
MaxTicks == 1
\* frames delivered by SSL_EVENTS in one behaviour of SweepSpec
MaxSweepEvents == 2
\* providers in a registry of FindSpec
MaxProviders == 2
\* JsonSpec puts at most this many bytes around the two objects
MaxFillLen == 2

(***************************************************************************)
(* Program constants                                                       *)
(***************************************************************************)
MAX_EXEC_QUEUE_SIZE == 1024
MAX_SSL_BUF_SIZE == 4096
MAX_REQUEST_BUFFER_SIZE == 8388608
MAX_RESPONSE_BUFFER_SIZE == 16777216
DETECTION_BUFFER_THRESHOLD == 4096
CONNECTION_RETENTION_SECS == 300

(***************************************************************************)
(* The host: processes, their memory maps, the dynamic-linker cache        *)
(***************************************************************************)
Pids == {1, 2}
LIBSSL == "libssl.so.3"
LIBCRYPTO == "libcrypto.so.3"
\* file names that match SSL_PATTERN  libssl\.so\..*|libcrypto\.so\..*
Files == {LIBSSL, LIBCRYPTO}
\* a host path: root 0 is the host file system (path reported by ldconfig),
\* root p is /proc/<p>/root/... as produced by resolve_host_path
Paths == [root : {0} \cup Pids, file : Files]
SystemLibs == {[root |-> 0, file |-> LIBSSL]}
\* the library sets a newly exec'd process may map
ExecImages == {{}, {LIBSSL}, {LIBSSL, LIBCRYPTO}}

VARIABLES
  settings,      \* [llm, file_access] : builtin_probes settings
  pc,            \* position of the controller task in run / run_llm_discovery
  shutdown,      \* the SHUTDOWN AtomicBool
  running,       \* FileAccessProbe.running AtomicBool
  metricsShutdownCalls, \* number of calls of telemetry::shutdown_metrics
  known,         \* known_targets of run_llm_discovery
  calls,         \* calls[path][step]: attach_uprobe calls issued
  links,         \* links[path][step]: uprobe attachments that succeeded
  lastAttach,    \* the last attach_new_targets_for_pids: known before, targets, calls
  procMaps,      \* procMaps[pid]: SSL file names in /proc/<pid>/maps
  ldconfig,      \* libssl paths listed by ldconfig -p
  execsLeft,     \* exec()s the host may still perform
  execWatch,     \* sched_process_exec tracepoint attached
  execRing,      \* EXEC_EVENTS ring buffer: pids in production order
  queue,         \* ExecPidQueue
  permit,        \* the stored permit of the tokio Notify
  batch,         \* pids drained from the queue by the current iteration
  ctrlcReady,    \* the pending signal::ctrl_c() future has seen a signal
  signalsLeft,   \* interrupt signals the user may still send
  sigDelivered,  \* an interrupt signal has been delivered after startup
  worker,        \* worker[w]: position of each drainer thread
  sslRing,       \* frames pending in SSL_EVENTS
  faRing,        \* frames pending in FILE_ACCESS_EVENTS
  dropped,       \* pids whose exec event the EXEC_EVENTS handler discarded
  accepted,      \* ghost: the pids pushed to the exec queue, in order
  passed,        \* ghost: the pids handed to attach_new_targets_for_pids, in order
  sp,            \* ProcSpec: the StreamProcessor
  spPrev,        \* ProcSpec: the processor before the last handle_event
  spHist,        \* ProcSpec: the (direction, data) pairs handled, in order
  spSummaries,   \* ProcSpec: summary records logged so far
  spSinceReset,  \* ProcSpec: summary records logged since the last reset()
  streams,       \* SslSpec: the StreamMap, key (pid, tid) -> processor
  hist,          \* SslSpec: per key, the frames SSL_EVENTS delivered for it
  cur,           \* SslSpec: per key, those delivered since its entry was last removed
  emitted,       \* SslSpec: per pid, summary records logged
  sslEventsLeft, \* SslSpec: frames SSL_EVENTS may still deliver
  clock,         \* SslSpec: seconds since the handler was installed
  kthread,       \* KernSpec: per thread, the probed call it is inside
  kcalls,        \* KernSpec: probed calls started so far
  PENDING_NCCL_OPS,  \* KernSpec: pid_tgid -> PendingNcclOp
  PENDING_GPU_OPENS, \* KernSpec: key of try_gpu_open_enter -> PendingGpuOpen
  GPU_FD_MAP,        \* KernSpec: (pid, fd) -> GpuFdInfo
  VFS_START,         \* KernSpec: tid -> (start time, op type, file)
  NCCL_EVENTS,       \* KernSpec: events submitted to the NCCL ring buffer
  GPU_OPEN_EVENTS,   \* KernSpec: events submitted to the GPU open ring buffer
  VFS_EVENTS,        \* KernSpec: events submitted to the VFS ring buffer
  lastProbe,     \* KernSpec: what the last entry or exit probe found and left
  rbRing,        \* RingSpec: frames pending in the ring buffer, oldest first
  rbFrames,      \* RingSpec: frames the kernel side has submitted so far
  rbPc,          \* RingSpec: position of the drainer thread
  rbHasWork,     \* RingSpec: has_work of the drainer's current round
  rbTaken,       \* RingSpec: frames ring_buf.next() has returned, in order
  rbHandled,     \* RingSpec: events the handler was invoked with, in order
  newPc,         \* StartupSpec: position inside HoneyBeeEngine::new
  setrlimitRet,  \* StartupSpec: what setrlimit(RLIMIT_MEMLOCK) returned
  hPath,         \* HashSpec: the watched path of FileAccessProbe, as bytes
  WATCHED_PATHS, \* HashSpec: keys of the WATCHED_PATHS map
  hOpen,         \* HashSpec: what sys_enter_openat last hashed and decided
  cPayload,      \* ChunkSpec: the payload P, as bytes
  cEncoded,      \* ChunkSpec: a chunked encoding E of P
  cDecoded,      \* ChunkSpec: the results of decoding E once, then again
  jBuffer,       \* JsonSpec: the parts pfx, json1, mid, json2, sfx of the buffer
  jResults,      \* JsonSpec: what extract_h2_json_all returned for the buffer
  cgroup_cache,  \* ResolverSpec: cgroup_id -> container id, or "none" for None
  pod_store,     \* ResolverSpec: container id -> pod name
  alive,         \* ResolverSpec: the processes whose /proc/<pid>/cgroup can be read
  rthread,       \* ResolverSpec: per handler thread, its position inside resolve
  watcher,       \* ResolverSpec: the position of the pod watcher task
  negative,      \* ResolverSpec: cgroup ids for which a resolve found no container id
  rLast,         \* ResolverSpec: the operation on the resolver the last step completed
  node,          \* ResolverSpec: the pods the watcher last reported present -> their container ids
  START_NS,      \* SessionSpec: the START_NS map, tid -> ns
  BUFS,          \* SessionSpec: the BUFS map, tid -> buffer address
  READBYTES_PTRS, \* SessionSpec: the READBYTES_PTRS map, tid -> address of the byte count
  SSL_EVENTS,    \* SessionSpec: the events submitted to the SSL_EVENTS ring buffer, in order
  sslStack,      \* SessionSpec: per thread, its probed SSL calls in progress, innermost last
  ktime,         \* SessionSpec: bpf_ktime_get_ns(), in probes run so far
  sslLast,       \* SessionSpec: the SSL call that returned last and what its exit probe did
  rwlock,        \* LockSpec: the two RwLocks of the resolver and who is where in taking them
  builtin,       \* ThresholdSpec: per probe, its switch and its threshold in ms
  thresholdMap,  \* ThresholdSpec: per probe, its kernel threshold map (key -> ns)
  attached,      \* ThresholdSpec: the probes whose attach returned Ok
  attachPc,      \* ThresholdSpec: the block of attach_probes that runs next
  fpInput,       \* FindSpec: the registry, the host and the path
  fpResult,      \* FindSpec: what find_provider returned for them
  prValue,       \* UsageSpec: the response JSON value
  prResult,      \* UsageSpec: what parse_response_json_value returned for it
  cgLine,        \* CgroupSpec: one line of /proc/<pid>/cgroup
  cgResult,      \* CgroupSpec: what the line parser returned for it
  regEnv,        \* RegistrySpec: the two environment variables and the file
  regLazy        \* RegistrySpec: the two lazily loaded statics

engineVars == <<settings, pc, shutdown, running, metricsShutdownCalls, known,
                calls, links, lastAttach, procMaps, ldconfig, execsLeft,
                execWatch, execRing, queue, permit, batch, ctrlcReady,
                signalsLeft, sigDelivered, worker, sslRing, faRing, dropped,
                accepted, passed>>

procVars == <<sp, spPrev, spHist, spSummaries, spSinceReset>>
sslVars == <<streams, hist, cur, emitted, sslEventsLeft, clock>>
streamVars == <<procVars, sslVars>>

\* the variables of the kernel-side and library specifications
kernVars == <<kthread, kcalls, PENDING_NCCL_OPS, PENDING_GPU_OPENS, GPU_FD_MAP,
              VFS_START, NCCL_EVENTS, GPU_OPEN_EVENTS, VFS_EVENTS, lastProbe>>
\* the variables of the kernel-side and library specifications
handlerVars == <<rbRing, rbFrames, rbPc, rbHasWork, rbTaken, rbHandled>>
startVars == <<newPc, setrlimitRet>>
hashVars == <<hPath, WATCHED_PATHS, hOpen>>
chunkVars == <<cPayload, cEncoded, cDecoded>>
jsonVars == <<jBuffer, jResults>>
\* the variables of the specifications of the parsers, the resolver and the
\* configuration
resolverVars == <<cgroup_cache, pod_store, alive, rthread, watcher, negative, rLast, rwlock, node>>
thresholdVars == <<builtin, thresholdMap, attached, attachPc>>
findVars == <<fpInput, fpResult>>
usageVars == <<prValue, prResult>>
cgroupVars == <<cgLine, cgResult>>
registryVars == <<regEnv, regLazy>>
libVars == <<jsonVars, resolverVars, thresholdVars, findVars, usageVars, cgroupVars, registryVars>>
sessionVars == <<START_NS, BUFS, READBYTES_PTRS, SSL_EVENTS, sslStack, ktime, sslLast>>
auxVars == <<kernVars, sessionVars, handlerVars, startVars, hashVars, chunkVars, libVars>>
notLibVars == <<engineVars, procVars, sslVars, sessionVars, kernVars, handlerVars, startVars,
                hashVars, chunkVars>>
notJsonVars == <<notLibVars, resolverVars, thresholdVars, findVars, usageVars, cgroupVars, registryVars>>
notResolverVars == <<notLibVars, jsonVars, thresholdVars, findVars, usageVars, cgroupVars, registryVars>>
notThresholdVars == <<notLibVars, jsonVars, resolverVars, findVars, usageVars, cgroupVars, registryVars>>
notFindVars == <<notLibVars, jsonVars, resolverVars, thresholdVars, usageVars, cgroupVars, registryVars>>
notUsageVars == <<notLibVars, jsonVars, resolverVars, thresholdVars, findVars, cgroupVars, registryVars>>
notCgroupVars == <<notLibVars, jsonVars, resolverVars, thresholdVars, findVars, usageVars, registryVars>>
notRegistryVars == <<notLibVars, jsonVars, resolverVars, thresholdVars, findVars, usageVars, cgroupVars>>
notSessionVars == <<engineVars, procVars, sslVars, kernVars, handlerVars, startVars, hashVars,
                    chunkVars, libVars>>
notKernVars == <<engineVars, procVars, sslVars, sessionVars, handlerVars, startVars, hashVars, chunkVars, libVars>>
notHandlerVars == <<engineVars, procVars, sslVars, sessionVars, kernVars, startVars, hashVars, chunkVars, libVars>>
notStartVars == <<engineVars, procVars, sslVars, sessionVars, kernVars, handlerVars, hashVars, chunkVars, libVars>>
notHashVars == <<engineVars, procVars, sslVars, sessionVars, kernVars, handlerVars, startVars, chunkVars, libVars>>
notChunkVars == <<engineVars, procVars, sslVars, sessionVars, kernVars, handlerVars, startVars, hashVars, libVars>>

vars == <<engineVars, procVars, sslVars, auxVars>>

\* groups used in UNCHANGED
cfgVars == <<settings, ldconfig, running>>
attachVars == <<known, calls, links, lastAttach>>
hostVars == <<procMaps, execsLeft>>
sigVars == <<ctrlcReady, signalsLeft, sigDelivered>>
ringVars == <<sslRing, faRing>>
ghostVars == <<dropped, accepted, passed>>

(***************************************************************************)
(* Helpers                                                                 *)
(***************************************************************************)
Min(S) == CHOOSE x \in S : \A y \in S : x <= y
Range(s) == {s[i] : i \in 1..Len(s)}

(***************************************************************************)
(* probes/builtin/llm/mod.rs: attach_probes_to_path                        *)
(***************************************************************************)
\* the ten attach_uprobe calls of attach_probes_to_path, in program order;
\* required = the call is followed by `?`
AttachSteps == <<
  [prog |-> "probe_ssl_rw_enter",           sym |-> "SSL_read",         required |-> TRUE],
  [prog |-> "probe_ssl_read_exit",          sym |-> "SSL_read",         required |-> TRUE],
  [prog |-> "probe_ssl_rw_enter",           sym |-> "SSL_write",        required |-> TRUE],
  [prog |-> "probe_ssl_write_exit",         sym |-> "SSL_write",        required |-> TRUE],
  [prog |-> "probe_ssl_do_handshake_enter", sym |-> "SSL_do_handshake", required |-> TRUE],
  [prog |-> "probe_ssl_do_handshake_exit",  sym |-> "SSL_do_handshake", required |-> TRUE],
  [prog |-> "probe_ssl_rw_ex_enter",        sym |-> "SSL_write_ex",     required |-> FALSE],
  [prog |-> "probe_ssl_write_ex_exit",      sym |-> "SSL_write_ex",     required |-> FALSE],
  [prog |-> "probe_ssl_rw_ex_enter",        sym |-> "SSL_read_ex",      required |-> FALSE],
  [prog |-> "probe_ssl_read_ex_exit",       sym |-> "SSL_read_ex",      required |-> FALSE] >>
Steps == 1..Len(AttachSteps)
MandatorySteps == {i \in Steps : AttachSteps[i].required}

\* The outcome of the attach calls on one library is decided by the loader and
\* the library (missing symbol, program that fails to load): F is the set of
\* steps whose attach_uprobe call fails.
AttachOutcomes == {{}, {3}, {7, 8}}

\* attach_uprobe: Ok iff the loader accepts this call
attach_uprobe(step, F) == step \notin F

\* attach_probes_to_path: the calls in order; a failed required call returns
\* the error at once, a failed optional call is ignored.
RECURSIVE AttachFrom(_, _, _, _)
AttachFrom(i, F, called, linked) ==
  IF i > Len(AttachSteps)
  THEN [ok |-> TRUE, called |-> called, linked |-> linked]
  ELSE IF attach_uprobe(i, F)
       THEN AttachFrom(i + 1, F, called \cup {i}, linked \cup {i})
       ELSE IF AttachSteps[i].required
            THEN [ok |-> FALSE, called |-> called \cup {i}, linked |-> linked]
            ELSE AttachFrom(i + 1, F, called \cup {i}, linked)

\* a variant that stops after the six required calls
attach_probes_to_path_six(F) ==
  LET r == AttachFrom(1, F \cup {7}, {}, {})
  IN  [ok |-> r.ok, called |-> r.called \ {7}, linked |-> r.linked]

attach_probes_to_path(F) == AttachFrom(1, F, {}, {})

\* path.contains("libcrypto")
IsLibcrypto(path) == path.file = LIBCRYPTO

(***************************************************************************)
(* probes/discovery.rs, probes/builtin/llm/discovery.rs                    *)
(***************************************************************************)
\* find_libraries_for_pids: the matching files of the given pids, resolved
\* through /proc/<pid>/root
find_targets_for_pids(pids, maps) ==
  {[root |-> p, file |-> f] : p \in pids, f \in Files} \cap
  {x \in Paths : x.root \in pids /\ x.file \in maps[x.root]}

\* find_libraries_all: ldconfig's libssl entries plus every process
find_all_targets(ld, maps) == ld \cup find_targets_for_pids(Pids, maps)

\* counters after the calls of one attach_probes_to_path on each path of cand
Bump(count, cand, res, field) ==
  [p \in Paths |->
     [s \in Steps |->
        IF p \in cand /\ s \in res[p][field] THEN count[p][s] + 1 ELSE count[p][s]]]

NoCount == [p \in Paths |-> [s \in Steps |-> 0]]

\* the paths attach_new_targets_for_pids attaches to: not libcrypto, not known
NewTargets(knownSet, targets) ==
  {p \in targets : ~IsLibcrypto(p) /\ p \notin knownSet}

(***************************************************************************)
(* Init                                                                    *)
(***************************************************************************)
Workers == {"exec", "ssl", "file_access"}

EngineInit(llm, fileAccess, execs) ==
  /\ settings \in [llm : llm, file_access : fileAccess]
  /\ pc = "start"
  /\ shutdown = FALSE
  /\ running = TRUE
  /\ metricsShutdownCalls = 0
  /\ known = {}
  /\ calls = NoCount
  /\ links = NoCount
  /\ lastAttach = [known0 |-> {}, targets |-> {}, called |-> [p \in {} |-> {}]]
  /\ procMaps = [p \in Pids |-> {}]
  /\ ldconfig \in {{}, SystemLibs}
  /\ execsLeft = execs
  /\ execWatch = FALSE
  /\ execRing = <<>>
  /\ queue = <<>>
  /\ permit = FALSE
  /\ batch = <<>>
  /\ ctrlcReady = FALSE
  /\ signalsLeft = MaxSignals
  /\ sigDelivered = FALSE
  /\ worker = [w \in Workers |-> "none"]
  /\ sslRing = 0
  /\ faRing = 0
  /\ dropped = {}
  /\ accepted = <<>>
  /\ passed = <<>>

(***************************************************************************)
(* probes/builtin/llm/mod.rs: attach_new_targets_for_pids                  *)
(***************************************************************************)
\* outcome[p] is the set of failing steps on path p; the result holds the
\* known set and the counters after the loop over the targets
attach_new_targets_for_pids(knownSet, pids, maps, outcome) ==
  LET targets == find_targets_for_pids(pids, maps)
      cand    == NewTargets(knownSet, targets)
      res     == [p \in cand |-> attach_probes_to_path(outcome[p])]
  IN  [known   |-> knownSet \cup {p \in cand : res[p].ok},
       calls   |-> Bump(calls, cand, res, "called"),
       links   |-> Bump(links, cand, res, "linked"),
       targets |-> targets,
       called  |-> [p \in cand |-> res[p].called]]

(***************************************************************************)
(* Environment: the host and the kernel probes                             *)
(***************************************************************************)
\* a process execs; the probe_exec tracepoint, once attached, emits its pid
ProcExec(p, image) ==
  /\ execsLeft > 0
  /\ execsLeft' = execsLeft - 1
  /\ procMaps' = [procMaps EXCEPT ![p] = image]
  /\ execRing' = IF execWatch THEN Append(execRing, p) ELSE execRing
  /\ UNCHANGED <<auxVars, streamVars, ghostVars, cfgVars, attachVars, sigVars, ringVars, pc, shutdown,
                 metricsShutdownCalls, execWatch, queue, permit, batch, worker>>

\* the controller positions at which the process-wide SIGINT handler of
\* tokio::signal is installed (the first ctrl_c() future has been polled)
LoopPcs == {"select", "batch_wait", "drain", "attach_new", "check_shutdown",
            "await_ctrl_c"}
\* the positions at which a ctrl_c() future is alive and listening
ListeningPcs == {"select", "await_ctrl_c"}

\* Ctrl-C: a live ctrl_c() future sees it; with no live future the installed
\* handler swallows it (a later ctrl_c() only sees later signals)
Signal ==
  /\ signalsLeft > 0
  /\ pc \in LoopPcs
  /\ signalsLeft' = signalsLeft - 1
  /\ sigDelivered' = TRUE
  /\ ctrlcReady' = IF pc \in ListeningPcs THEN TRUE ELSE ctrlcReady
  /\ UNCHANGED <<auxVars, streamVars, ghostVars, cfgVars, attachVars, hostVars, ringVars, pc, shutdown,
                 metricsShutdownCalls, execWatch, execRing, queue, permit,
                 batch, worker>>

\* an instrumented SSL call produces a frame in SSL_EVENTS
SslFrame ==
  /\ \E p \in Paths : \E s \in Steps : links[p][s] > 0
  /\ sslRing < MaxRing
  /\ sslRing' = sslRing + 1
  /\ UNCHANGED <<auxVars, streamVars, ghostVars, cfgVars, attachVars, hostVars, sigVars, faRing, pc, shutdown,
                 metricsShutdownCalls, execWatch, execRing, queue, permit,
                 batch, worker>>

\* a watched file is opened: a frame in FILE_ACCESS_EVENTS
FaFrame ==
  /\ worker["file_access"] # "none"
  /\ faRing < MaxRing
  /\ faRing' = faRing + 1
  /\ UNCHANGED <<auxVars, streamVars, ghostVars, cfgVars, attachVars, hostVars, sigVars, sslRing, pc, shutdown,
                 metricsShutdownCalls, execWatch, execRing, queue, permit,
                 batch, worker>>

(***************************************************************************)
(* lib.rs: HoneyBeeEngine::run, attach_probes                              *)
(***************************************************************************)
\* attach_probes: FileAccessProbe::attach (failure warned) spawns its own
\* drainer thread; LlmProbe::attach scans, attaches to every libssl found
\* (failure warned), then spawns the SSL_EVENTS drainer; its error is
\* propagated with `?`.
AttachProbes ==
  /\ pc = "start"
  /\ LET targets == IF settings.llm THEN find_all_targets(ldconfig, procMaps) ELSE {}
         cand    == {p \in targets : ~IsLibcrypto(p)}
     IN \E faOk \in BOOLEAN, sslMapOk \in BOOLEAN, outcome \in [cand -> AttachOutcomes] :
          LET res == [p \in cand |-> attach_probes_to_path(outcome[p])]
              spawnSsl == settings.llm /\ targets # {}
          IN /\ calls' = Bump(calls, cand, res, "called")
             /\ links' = Bump(links, cand, res, "linked")
             /\ worker' = [worker EXCEPT
                  !["file_access"] = IF settings.file_access /\ faOk
                                     THEN "check" ELSE "none",
                  !["ssl"] = IF spawnSsl /\ sslMapOk THEN "check" ELSE "none"]
             /\ pc' = IF spawnSsl /\ ~sslMapOk THEN "failed"
                      ELSE IF settings.llm THEN "setup_exec_watch"
                      ELSE "await_ctrl_c"
  /\ UNCHANGED <<auxVars, streamVars, ghostVars, cfgVars, hostVars, sigVars, ringVars, known, lastAttach,
                 shutdown, metricsShutdownCalls, execWatch, execRing, queue,
                 permit, batch>>

\* setup_exec_watch: attach probe_exec, spawn the EXEC_EVENTS drainer
SetupExecWatch ==
  /\ pc = "setup_exec_watch"
  /\ \E ok \in BOOLEAN :
       IF ok
       THEN /\ execWatch' = TRUE
            /\ worker' = [worker EXCEPT !["exec"] = "check"]
            /\ pc' = "seed"
       ELSE /\ pc' = "failed"
            /\ UNCHANGED <<execWatch, worker>>
  /\ UNCHANGED <<auxVars, streamVars, ghostVars, cfgVars, attachVars, hostVars, sigVars, ringVars, shutdown,
                 metricsShutdownCalls, execRing, queue, permit, batch>>

\* run_llm_discovery, before the loop: seed known_targets with a full scan
Seed ==
  /\ pc = "seed"
  /\ known' = find_all_targets(ldconfig, procMaps)
  /\ pc' = "select"
  /\ UNCHANGED <<auxVars, streamVars, ghostVars, cfgVars, hostVars, sigVars, ringVars, calls, links, lastAttach,
                 shutdown, metricsShutdownCalls, execWatch, execRing, queue,
                 permit, batch, worker>>

\* select!: the ctrl_c branch wins -> break
SelectCtrlC ==
  /\ pc = "select"
  /\ ctrlcReady
  /\ ctrlcReady' = FALSE
  /\ pc' = "shutdown_metrics"
  /\ UNCHANGED <<auxVars, streamVars, ghostVars, cfgVars, attachVars, hostVars, ringVars, signalsLeft,
                 sigDelivered, shutdown, metricsShutdownCalls, execWatch,
                 execRing, queue, permit, batch, worker>>

\* select!: the notified branch wins; the ctrl_c future is dropped
SelectNotified ==
  /\ pc = "select"
  /\ permit
  /\ permit' = FALSE
  /\ ctrlcReady' = FALSE
  /\ pc' = "batch_wait"
  /\ UNCHANGED <<auxVars, streamVars, ghostVars, cfgVars, attachVars, hostVars, ringVars, signalsLeft,
                 sigDelivered, shutdown, metricsShutdownCalls, execWatch,
                 execRing, queue, batch, worker>>

\* tokio::time::sleep(BATCH_WAIT_MS) returns
BatchWait ==
  /\ pc = "batch_wait"
  /\ pc' = "drain"
  /\ UNCHANGED <<auxVars, streamVars, ghostVars, cfgVars, attachVars, hostVars, sigVars, ringVars, shutdown,
                 metricsShutdownCalls, execWatch, execRing, queue, permit,
                 batch, worker>>

\* a drain that takes one pid at a time
Drain_front ==
  /\ pc = "drain"
  /\ batch' = IF queue = <<>> THEN <<>> ELSE <<Head(queue)>>
  /\ queue' = IF queue = <<>> THEN <<>> ELSE Tail(queue)
  /\ pc' = IF queue = <<>> THEN "check_shutdown" ELSE "attach_new"
  /\ UNCHANGED <<auxVars, streamVars, ghostVars, cfgVars, attachVars, hostVars, sigVars, ringVars, shutdown,
                 metricsShutdownCalls, execWatch, execRing, permit, worker>>

\* q.drain(..).collect() under the queue lock
Drain ==
  /\ pc = "drain"
  /\ batch' = queue
  /\ queue' = <<>>
  /\ pc' = IF queue = <<>> THEN "check_shutdown" ELSE "attach_new"
  /\ UNCHANGED <<auxVars, streamVars, ghostVars, cfgVars, attachVars, hostVars, sigVars, ringVars, shutdown,
                 metricsShutdownCalls, execWatch, execRing, permit, worker>>

\* attach_new_targets_for_pids(&mut bpf, &mut known_targets, &pids)
AttachNew ==
  /\ pc = "attach_new"
  /\ \E pids \in {Range(batch)} :
     \E cand \in {NewTargets(known, find_targets_for_pids(pids, procMaps))} :
     \E outcome \in [cand -> AttachOutcomes] :
          LET r == attach_new_targets_for_pids(known, pids, procMaps, outcome)
          IN /\ known' = r.known
             /\ calls' = r.calls
             /\ links' = r.links
             /\ lastAttach' = [known0 |-> known, targets |-> r.targets,
                               called |-> r.called]
  /\ passed' = passed \o batch
  /\ batch' = <<>>
  /\ pc' = "check_shutdown"
  /\ UNCHANGED <<auxVars, streamVars, dropped, accepted, cfgVars, hostVars, sigVars, ringVars, shutdown,
                 metricsShutdownCalls, execWatch, execRing, queue, permit,
                 worker>>

\* if shutdown.load(Relaxed) { break }
CheckShutdown ==
  /\ pc = "check_shutdown"
  /\ pc' = IF shutdown THEN "shutdown_metrics" ELSE "select"
  /\ UNCHANGED <<auxVars, streamVars, ghostVars, cfgVars, attachVars, hostVars, sigVars, ringVars, shutdown,
                 metricsShutdownCalls, execWatch, execRing, queue, permit,
                 batch, worker>>

\* telemetry::shutdown_metrics(), the last statement of run_llm_discovery
ShutdownMetrics ==
  /\ pc = "shutdown_metrics"
  /\ metricsShutdownCalls' = metricsShutdownCalls + 1
  /\ pc' = "request_shutdown"
  /\ UNCHANGED <<auxVars, streamVars, ghostVars, cfgVars, attachVars, hostVars, sigVars, ringVars, shutdown,
                 execWatch, execRing, queue, permit, batch, worker>>

\* LLM disabled: signal::ctrl_c().await returns
AwaitCtrlC ==
  /\ pc = "await_ctrl_c"
  /\ ctrlcReady
  /\ ctrlcReady' = FALSE
  /\ pc' = "request_shutdown"
  /\ UNCHANGED <<auxVars, streamVars, ghostVars, cfgVars, attachVars, hostVars, ringVars, signalsLeft,
                 sigDelivered, shutdown, metricsShutdownCalls, execWatch,
                 execRing, queue, permit, batch, worker>>

\* probes/mod.rs: request_shutdown, then run returns Ok
RequestShutdown ==
  /\ pc = "request_shutdown"
  /\ shutdown' = TRUE
  /\ pc' = "done"
  /\ UNCHANGED <<auxVars, streamVars, ghostVars, cfgVars, attachVars, hostVars, sigVars, ringVars,
                 metricsShutdownCalls, execWatch, execRing, queue, permit,
                 batch, worker>>

(***************************************************************************)
(* probes/mod.rs: spawn_ringbuf_handler, the worker of one ring buffer     *)
(***************************************************************************)
RingWorkers == {"exec", "ssl"}

\* while !shutdown.load(Relaxed)
WorkerCheck(w) ==
  /\ w \in RingWorkers
  /\ worker[w] = "check"
  /\ worker' = [worker EXCEPT ![w] = IF shutdown THEN "exited" ELSE "drain"]
  /\ UNCHANGED <<auxVars, streamVars, ghostVars, cfgVars, attachVars, hostVars, sigVars, ringVars, pc, shutdown,
                 metricsShutdownCalls, execWatch, execRing, queue, permit, batch>>

\* a handler that pushes without testing the length
ExecHandler_uncapped(q, pid) == Append(q, pid)

\* the EXEC_EVENTS handler of setup_exec_watch: push unless the queue is
\* full, then notify_one
ExecHandler(q, pid) == IF Len(q) < MAX_EXEC_QUEUE_SIZE THEN Append(q, pid) ELSE q

\* while let Some(item) = ring_buf.next() { handler(event) }
WorkerNext(w) ==
  /\ w \in RingWorkers
  /\ worker[w] = "drain"
  /\ IF w = "exec"
     THEN /\ execRing # <<>>
          /\ execRing' = Tail(execRing)
          /\ queue' = ExecHandler(queue, Head(execRing))
          /\ dropped' = IF ExecHandler(queue, Head(execRing)) = queue
                        THEN dropped \cup {Head(execRing)} ELSE dropped
          /\ accepted' = IF ExecHandler(queue, Head(execRing)) = queue
                         THEN accepted ELSE Append(accepted, Head(execRing))
          /\ permit' = TRUE
          /\ UNCHANGED sslRing
     ELSE /\ sslRing > 0
          /\ sslRing' = sslRing - 1
          /\ UNCHANGED <<execRing, queue, permit, dropped, accepted>>
  /\ UNCHANGED <<auxVars, streamVars, cfgVars, attachVars, hostVars, sigVars, faRing, pc, shutdown,
                 metricsShutdownCalls, execWatch, batch, worker, passed>>

\* ring_buf.next() is None: sleep POLL_INTERVAL_MS if nothing was drained,
\* then test the flag again
WorkerIdle(w) ==
  /\ w \in RingWorkers
  /\ worker[w] = "drain"
  /\ IF w = "exec" THEN execRing = <<>> ELSE sslRing = 0
  /\ worker' = [worker EXCEPT ![w] = "check"]
  /\ UNCHANGED <<auxVars, streamVars, ghostVars, cfgVars, attachVars, hostVars, sigVars, ringVars, pc, shutdown,
                 metricsShutdownCalls, execWatch, execRing, queue, permit, batch>>

(***************************************************************************)
(* probes/builtin/filesystem/file_access.rs: spawn_event_handler           *)
(***************************************************************************)
\* while running.load(Relaxed)
FaCheck ==
  /\ worker["file_access"] = "check"
  /\ worker' = [worker EXCEPT !["file_access"] = IF running THEN "drain" ELSE "exited"]
  /\ UNCHANGED <<auxVars, streamVars, ghostVars, cfgVars, attachVars, hostVars, sigVars, ringVars, pc, shutdown,
                 metricsShutdownCalls, execWatch, execRing, queue, permit, batch>>

\* if let Some(item) = ring_buf.next() { ... }; sleep(10 ms)
FaNext ==
  /\ worker["file_access"] = "drain"
  /\ faRing' = IF faRing > 0 THEN faRing - 1 ELSE faRing
  /\ worker' = [worker EXCEPT !["file_access"] = "check"]
  /\ UNCHANGED <<auxVars, streamVars, ghostVars, cfgVars, attachVars, hostVars, sigVars, sslRing, pc, shutdown,
                 metricsShutdownCalls, execWatch, execRing, queue, permit, batch>>

(***************************************************************************)
(* probes/builtin/llm/processor.rs: StreamProcessor                        *)
(*                                                                         *)
(* A buffer is the sequence of the payloads appended to it; a payload is   *)
(* a record [kind, len] where len is its byte count and kind says what     *)
(* the parsers find in its bytes:                                          *)
(*   h1_llm        a complete HTTP/1.1 request whose host and path match a *)
(*                 configured provider, with a JSON body ("messages" ...)  *)
(*   h1_other      a complete HTTP/1.1 request that matches no provider    *)
(*   h2_json       bytes that start with no HTTP method and hold one of    *)
(*                 the JSON keys "messages", "contents", "prompt", "model" *)
(*   h1_resp_usage a complete HTTP/1.1 response head followed by one JSON  *)
(*                 object with usage counts                                *)
(*   h1_resp_head  a complete HTTP/1.1 response head and no body           *)
(*   json_usage    one balanced JSON object with usage counts              *)
(*   noise         bytes with no method, no brace, no quote, no key        *)
(***************************************************************************)
WriteKinds == {"h1_llm", "h1_other", "h2_json", "noise"}
ReadKinds == {"h1_resp_usage", "h1_resp_head", "json_usage", "noise"}

\* types.rs: LlmDirection (Handshake and Unknown are handled alike)
Directions == {"Read", "Write", "Handshake"}

RECURSIVE ByteLen(_)
ByteLen(buf) == IF buf = <<>> THEN 0 ELSE Head(buf).len + ByteLen(Tail(buf))

\* StreamProcessor::new
new == [state |-> "Detecting", parser |-> "none", write_buf |-> <<>>,
        read_buf |-> <<>>, last_activity |-> 0]

\* a reset that returns to Detecting and keeps the buffers
reset_state_only(p) == [p EXCEPT !.state = "Detecting", !.parser = "none"]

\* StreamProcessor::reset: the state and both buffers, not last_activity
reset(p) ==
  [p EXCEPT !.state = "Detecting", !.parser = "none",
            !.write_buf = <<>>, !.read_buf = <<>>]

\* Http11Parser::detect_request: httparse reads the request line and the
\* headers from the first byte of the buffer, then the provider registry
\* is asked for host and path
Http11_detect_request(buf) ==
  /\ buf # <<>>
  /\ Head(buf).kind = "h1_llm"

\* Http2Parser::detect_request: refuse a buffer that starts with an HTTP
\* method, then look for a JSON key or a provider path anywhere in it
Http2_detect_request(buf) ==
  /\ buf # <<>>
  /\ Head(buf).kind \notin {"h1_llm", "h1_other"}
  /\ \E i \in 1..Len(buf) : buf[i].kind \in {"h2_json", "h1_llm"}

\* the JSON objects in the bytes of one payload
JsonObjects(chunk) == IF chunk.kind \in {"h1_resp_usage", "json_usage"} THEN 1 ELSE 0

RECURSIVE JsonCount(_)
JsonCount(buf) ==
  IF buf = <<>> THEN 0 ELSE JsonObjects(Head(buf)) + JsonCount(Tail(buf))

\* Http11Parser::parse_response: the head must be complete at the start of
\* the buffer; the body after it must end with "}" and the text from its
\* first "{" to its end must be one JSON value with usage
Http11_parse_response(buf) ==
  /\ buf # <<>>
  /\ Head(buf).kind \in {"h1_resp_usage", "h1_resp_head"}
  /\ JsonObjects(buf[Len(buf)]) = 1
  /\ JsonCount(buf) = 1

\* Http2Parser::parse_response: every balanced JSON object of the buffer
\* is tried in order, the first one with usage wins
Http2_parse_response(buf) ==
  \E i \in 1..Len(buf) : JsonObjects(buf[i]) = 1

\* dyn ProtocolParser::parse_response
parse_response(parser, buf) ==
  IF parser = "Http11" THEN Http11_parse_response(buf)
  ELSE Http2_parse_response(buf)

\* one buffer-size test of handle_event:
\* self.write_buf.len() + data.len() > MAX_REQUEST_BUFFER_SIZE and its twin
Exceeds_data_only(buf, data, max) == data.len > max

Exceeds(buf, data, max) == ByteLen(buf) + data.len > max

\* handle_event, 1. Buffer Management.  The result says whether the call
\* goes on to the state machine (go) and whether reset() was called
BufferManagement(p, direction, data) ==
  CASE direction = "Write" ->
         IF Exceeds(p.write_buf, data, MAX_REQUEST_BUFFER_SIZE)
         THEN [p |-> reset(p), go |-> FALSE, reset |-> TRUE]
         ELSE [p |-> [p EXCEPT !.write_buf = Append(@, data)],
               go |-> TRUE, reset |-> FALSE]
    [] direction = "Read" ->
         IF Exceeds(p.read_buf, data, MAX_RESPONSE_BUFFER_SIZE)
         THEN [p |-> reset(p), go |-> FALSE, reset |-> TRUE]
         ELSE [p |-> [p EXCEPT !.read_buf = Append(@, data)],
               go |-> TRUE, reset |-> FALSE]
    [] OTHER -> [p |-> p, go |-> FALSE, reset |-> FALSE]

\* a Detecting arm that keeps detecting whatever the buffer holds
DetectingStep_unbounded(p) ==
  IF Http11_detect_request(p.write_buf)
  THEN [p EXCEPT !.state = "ProcessingRequest", !.parser = "Http11"]
  ELSE IF Http2_detect_request(p.write_buf)
  THEN [p EXCEPT !.state = "ProcessingRequest", !.parser = "Http2"]
  ELSE p

\* handle_event, [State 1] Detecting
DetectingStep(p) ==
  IF Http11_detect_request(p.write_buf)
  THEN [p EXCEPT !.state = "ProcessingRequest", !.parser = "Http11"]
  ELSE IF Http2_detect_request(p.write_buf)
  THEN [p EXCEPT !.state = "ProcessingRequest", !.parser = "Http2"]
  ELSE IF ByteLen(p.write_buf) > DETECTION_BUFFER_THRESHOLD
  THEN [p EXCEPT !.state = "Finished", !.parser = "none"]
  ELSE p

\* handle_event, [State 2] Processing Request
ProcessingRequestStep(p, direction) ==
  IF direction = "Read" THEN [p EXCEPT !.state = "ProcessingResponse"] ELSE p

\* handle_event, [State 3] Processing Response: the processor and the
\* number of summary records logged
ProcessingResponseStep_stay(p) ==
  [p |-> p, summary |-> IF parse_response(p.parser, p.read_buf) THEN 1 ELSE 0]

ProcessingResponseStep(p) ==
  IF parse_response(p.parser, p.read_buf)
  THEN [p |-> [p EXCEPT !.state = "Finished", !.parser = "none"], summary |-> 1]
  ELSE [p |-> p, summary |-> 0]

\* handle_event, 2. State Machine Transition
Transition(p, direction) ==
  CASE p.state = "Detecting" -> [p |-> DetectingStep(p), summary |-> 0]
    [] p.state = "ProcessingRequest" ->
         [p |-> ProcessingRequestStep(p, direction), summary |-> 0]
    [] p.state = "ProcessingResponse" -> ProcessingResponseStep(p)
    [] OTHER -> [p |-> p, summary |-> 0]

\* StreamProcessor::handle_event at time now: the processor after the call,
\* the summary records it logged and whether it called reset()
handle_event(p, direction, data, now) ==
  LET p1 == [p EXCEPT !.last_activity = now]
      fin == p1.state = "Finished"
  IN  IF fin /\ direction # "Write"
      THEN [p |-> p1, summary |-> 0, reset |-> FALSE]
      ELSE LET p2 == IF fin THEN reset(p1) ELSE p1
               b == BufferManagement(p2, direction, data)
               t == Transition(b.p, direction)
           IN  IF b.go
               THEN [p |-> t.p, summary |-> t.summary, reset |-> fin]
               ELSE [p |-> b.p, summary |-> 0, reset |-> fin \/ b.reset]

\* the calls made on one processor: payloads of a full event buffer, and
\* payloads as large as a whole request or response buffer (handle_event
\* takes any slice; long payloads reach the caps within MaxProcEvents calls)
ProcInputs ==
  [direction : {"Write"},
   data : [kind : WriteKinds, len : {MAX_SSL_BUF_SIZE}]
          \cup [kind : {"h2_json", "noise"}, len : {MAX_REQUEST_BUFFER_SIZE}]]
  \cup
  [direction : {"Read"},
   data : [kind : ReadKinds, len : {MAX_SSL_BUF_SIZE}]
          \cup [kind : {"json_usage", "noise"}, len : {MAX_RESPONSE_BUFFER_SIZE}]]
  \cup
  [direction : {"Handshake"}, data : [kind : {"noise"}, len : {MAX_SSL_BUF_SIZE}]]

\* processor.handle_event(direction, data, ...) on the processor sp
HandleEvent(direction, data) ==
  /\ Len(spHist) < MaxProcEvents
  /\ LET r == handle_event(sp, direction, data, Len(spHist) + 1)
     IN  /\ sp' = r.p
         /\ spSummaries' = spSummaries + r.summary
         /\ spSinceReset' = IF r.reset THEN 0 ELSE spSinceReset + r.summary
  /\ spPrev' = sp
  /\ spHist' = Append(spHist, [direction |-> direction, data |-> data])
  /\ UNCHANGED <<auxVars, engineVars, sslVars>>

(***************************************************************************)
(* probes/builtin/llm/mod.rs: the SSL_EVENTS handler of LlmProbe::attach   *)
(***************************************************************************)
Tids == {1, 2}

\* (pid, tid) of the threads that call into libssl
Keys == {<<1, 1>>, <<1, 2>>, <<2, 1>>}

\* LlmDirection::from(event.rw)
LlmDirection_from(rw) ==
  CASE rw = 0 -> "Read"
    [] rw = 1 -> "Write"
    [] rw = 2 -> "Handshake"
    [] OTHER -> "Unknown"

\* the payload part of an LlmEvent; len is the byte count of the SSL call,
\* of which buf holds at most MAX_SSL_BUF_SIZE
Payloads ==
  { [rw |-> 1, is_handshake |-> 0, buf_filled |-> 1, len |-> 6000, kind |-> "h2_json"],
    [rw |-> 0, is_handshake |-> 0, buf_filled |-> 1, len |-> 4096, kind |-> "json_usage"],
    [rw |-> 0, is_handshake |-> 0, buf_filled |-> 1, len |-> 100, kind |-> "noise"],
    [rw |-> 2, is_handshake |-> 1, buf_filled |-> 0, len |-> 0, kind |-> "noise"],
    [rw |-> 0, is_handshake |-> 0, buf_filled |-> 1, len |-> 0, kind |-> "noise"],
    [rw |-> 1, is_handshake |-> 0, buf_filled |-> 0, len |-> 4096, kind |-> "h2_json"] }

\* let key = (event.metadata.pid, event.metadata._pad)
StreamKey_pid_only(ev) == <<ev.pid, 1>>

StreamKey(ev) == <<ev.pid, ev.tid>>

EmptyMap == [k \in {} |-> new]

\* the closure without its returns for unfilled and empty events
SSL_EVENTS_handler_handshake_only(map, ev, now) ==
  IF ev.is_handshake = 1
  THEN [map |-> map, summary |-> 0]
  ELSE LET key == StreamKey(ev)
           processor == IF key \in DOMAIN map THEN map[key] ELSE new
           data_len == Min({ev.len, MAX_SSL_BUF_SIZE})
           r == handle_event(processor, LlmDirection_from(ev.rw),
                             [kind |-> ev.kind, len |-> data_len], now)
       IN  [map |-> [k \in DOMAIN map \cup {key} |->
                       IF k = key THEN r.p ELSE map[k]],
            summary |-> r.summary]

\* the closure given to spawn_ringbuf_handler for SSL_EVENTS, run on the
\* StreamMap map at time now: the map afterwards and the summaries logged
SSL_EVENTS_handler(map, ev, now) ==
  IF ev.is_handshake = 1 \/ ev.buf_filled = 0 \/ ev.len = 0
  THEN [map |-> map, summary |-> 0]
  ELSE LET key == StreamKey(ev)
           processor == IF key \in DOMAIN map THEN map[key] ELSE new
           data_len == Min({ev.len, MAX_SSL_BUF_SIZE})
           r == handle_event(processor, LlmDirection_from(ev.rw),
                             [kind |-> ev.kind, len |-> data_len], now)
       IN  [map |-> [k \in DOMAIN map \cup {key} |->
                       IF k = key THEN r.p ELSE map[k]],
            summary |-> r.summary]

\* SSL_EVENTS delivers the frame of one SSL call of thread (pid, tid)
SslEvent(pid, tid, payload) ==
  /\ sslEventsLeft > 0
  /\ sslEventsLeft' = sslEventsLeft - 1
  /\ LET ev == [pid |-> pid, tid |-> tid, rw |-> payload.rw,
                is_handshake |-> payload.is_handshake,
                buf_filled |-> payload.buf_filled,
                len |-> payload.len, kind |-> payload.kind]
         r == SSL_EVENTS_handler(streams, ev, clock)
     IN  /\ streams' = r.map
         /\ emitted' = [emitted EXCEPT ![pid] = @ + r.summary]
         /\ hist' = [hist EXCEPT ![<<pid, tid>>] = Append(@, ev)]
         /\ cur' = [cur EXCEPT ![<<pid, tid>>] = Append(@, ev)]
  /\ UNCHANGED <<auxVars, engineVars, procVars, clock>>

\* no TLS call is made for CONNECTION_RETENTION_SECS
Idle ==
  /\ clock < MaxIdlePeriods * CONNECTION_RETENTION_SECS
  /\ clock' = clock + CONNECTION_RETENTION_SECS
  /\ UNCHANGED <<auxVars, engineVars, procVars, streams, hist, cur, emitted, sslEventsLeft>>

\* d seconds pass: one second, or one second less than the retention time
Tick(d) ==
  /\ IF d = 1 THEN clock % CONNECTION_RETENTION_SECS < MaxTicks ELSE clock <= MaxTicks
  /\ clock' = clock + d
  /\ UNCHANGED <<auxVars, engineVars, procVars, streams, hist, cur, emitted, sslEventsLeft>>

\* a retain that also keeps the entries idle for CONNECTION_RETENTION_SECS
retain_inclusive(map, now) ==
  [k \in {x \in DOMAIN map : now - map[x].last_activity <= CONNECTION_RETENTION_SECS}
     |-> map[k]]

\* map.retain(|_, v| now.duration_since(v.last_activity()).as_secs()
\*                   < CONNECTION_RETENTION_SECS)
retain(map, now) ==
  [k \in {x \in DOMAIN map : now - map[x].last_activity < CONNECTION_RETENTION_SECS}
     |-> map[k]]

\* start_cleanup_task: one round of the sweeper thread's loop
Sweep ==
  /\ ~shutdown
  /\ streams' = retain(streams, clock)
  /\ cur' = [k \in Keys |-> IF k \in DOMAIN streams \ DOMAIN streams'
                             THEN <<>> ELSE cur[k]]
  /\ UNCHANGED <<auxVars, engineVars, procVars, hist, emitted, sslEventsLeft, clock>>

\* the stream variables of a behaviour that handles no TLS event
ProcIdle ==
  /\ sp = new
  /\ spPrev = new
  /\ spHist = <<>>
  /\ spSummaries = 0
  /\ spSinceReset = 0

SslIdle(n) ==
  /\ streams = EmptyMap
  /\ hist = [k \in Keys |-> <<>>]
  /\ cur = [k \in Keys |-> <<>>]
  /\ emitted = [p \in Pids |-> 0]
  /\ sslEventsLeft = n
  /\ clock = 0

(***************************************************************************)
(* Kernel side: the entry/exit probe pairs and their pending maps          *)
(***************************************************************************)
\* threads of the host as bpf_get_current_pid_tgid reports them: two threads
\* of process 1 and the only thread of process 2
KThreads == {[tgid |-> 1, tid |-> 1], [tgid |-> 1, tid |-> 2],
             [tgid |-> 2, tid |-> 3]}

\* the NCCL functions probed: a collective, a point-to-point and a simple one
NcclOps == {"AllReduce", "Send", "GroupStart"}
\* return values of the NCCL functions (ncclResult_t)
NcclRets == {0}
\* file names passed to openat
OpenatPaths == {"/dev/nvidia0", "/etc/hosts"}
\* return values of openat
OpenatRets == {-1, 3}
VFS_OP_READ == 0
VFS_OP_WRITE == 1
MIN_READ_BYTES == 1048576
DEFAULT_THRESHOLD_NS == 10000000
S_IFREG == 32768
S_IFMT == 61440
\* return values of vfs_read / vfs_write
VfsRets == {-1, 512}

\* let tid = bpf_get_current_pid_tgid()   (tgid << 32 | tid)
NcclKey(t) == <<t.tgid, t.tid>>
\* let tid = ctx.tgid() as u64
GpuKey(t) == t.tgid
\* let tid = (bpf_get_current_pid_tgid() & 0xFFFFFFFF) as u32
VfsKey(t) == t.tid

\* HashMap::insert / HashMap::remove
insert(m, k, v) == [x \in DOMAIN m \cup {k} |-> IF x = k THEN v ELSE m[x]]
remove(m, k) == [x \in DOMAIN m \ {k} |-> m[x]]

get_gpu_index(filename) == IF filename = "/dev/nvidia0" THEN 0 ELSE -1

NoCall == [op |-> "none", call |-> 0]

\* what a probe that ran for thread t on map m (before) at key k found there,
\* and whether an entry is left at k afterwards (after)
Probe(kind, map, t, m, k, after) ==
  [kind |-> kind, map |-> map, thread |-> t,
   found |-> k \in DOMAIN m,
   owner |-> IF k \in DOMAIN m THEN m[k].owner ELSE t,
   left |-> k \in DOMAIN after]

\* a thread calls a probed function: the call gets the next call number
Begin(t, op) ==
  /\ kthread[t].op = "none"
  /\ kcalls < MaxKernelCalls
  /\ kcalls' = kcalls + 1
  /\ kthread' = [kthread EXCEPT ![t] = [op |-> op, call |-> kcalls + 1]]

\* try_nccl_entry / try_nccl_entry_p2p / try_nccl_entry_simple
NcclEntry(t, op_type) ==
  /\ Begin(t, "nccl")
  /\ LET pending == [op_type |-> op_type,
                     count |-> IF op_type = "GroupStart" THEN 0 ELSE 1,
                     owner |-> t, call |-> kcalls + 1]
     IN  /\ PENDING_NCCL_OPS' = insert(PENDING_NCCL_OPS, NcclKey(t), pending)
         /\ lastProbe' = Probe("entry", "nccl", t, PENDING_NCCL_OPS, NcclKey(t),
                               PENDING_NCCL_OPS')
  /\ UNCHANGED <<notKernVars, PENDING_GPU_OPENS, GPU_FD_MAP, VFS_START,
                 NCCL_EVENTS, GPU_OPEN_EVENTS, VFS_EVENTS>>

\* emit_nccl_event, on return of the NCCL function thread t is inside;
\* reserved: NCCL_EVENTS.reserve returned a slot
NcclExit(t, ret_code, reserved) ==
  /\ kthread[t].op = "nccl"
  /\ kthread' = [kthread EXCEPT ![t] = NoCall]
  /\ IF NcclKey(t) \notin DOMAIN PENDING_NCCL_OPS
     THEN UNCHANGED <<PENDING_NCCL_OPS, NCCL_EVENTS>>
     ELSE LET pending == PENDING_NCCL_OPS[NcclKey(t)]
          IN  /\ PENDING_NCCL_OPS' = remove(PENDING_NCCL_OPS, NcclKey(t))
              /\ NCCL_EVENTS' =
                   IF reserved
                   THEN NCCL_EVENTS \cup
                          {[op_type |-> pending.op_type, ret_code |-> ret_code,
                            count |-> pending.count, pid |-> t.tgid]}
                   ELSE NCCL_EVENTS
  /\ lastProbe' = Probe("exit", "nccl", t, PENDING_NCCL_OPS, NcclKey(t),
                        PENDING_NCCL_OPS')
  /\ UNCHANGED <<notKernVars, kcalls, PENDING_GPU_OPENS, GPU_FD_MAP,
                 VFS_START, GPU_OPEN_EVENTS, VFS_EVENTS>>

\* try_gpu_open_enter, on sys_enter_openat; read: the probe could read the
\* file name and the flags
GpuOpenEnter(t, filename, read) ==
  /\ Begin(t, "openat")
  /\ IF read /\ get_gpu_index(filename) >= 0
     THEN LET pending == [gpu_index |-> get_gpu_index(filename),
                          filename |-> filename, owner |-> t,
                          call |-> kcalls + 1]
          IN  /\ PENDING_GPU_OPENS' = insert(PENDING_GPU_OPENS, GpuKey(t), pending)
              /\ lastProbe' = Probe("entry", "gpu", t, PENDING_GPU_OPENS, GpuKey(t),
                                    PENDING_GPU_OPENS')
     ELSE /\ UNCHANGED PENDING_GPU_OPENS
          /\ lastProbe' = Probe("entry", "gpu", t, <<>>, GpuKey(t), <<>>)
  /\ UNCHANGED <<notKernVars, PENDING_NCCL_OPS, GPU_FD_MAP, VFS_START,
                 NCCL_EVENTS, GPU_OPEN_EVENTS, VFS_EVENTS>>

\* try_gpu_open_exit, on sys_exit_openat of the call thread t is inside;
\* fd: the call's return value, read: the probe could read it,
\* reserved: GPU_OPEN_EVENTS.reserve returned a slot
GpuOpenExit(t, fd, read, reserved) ==
  /\ kthread[t].op = "openat"
  /\ kthread' = [kthread EXCEPT ![t] = NoCall]
  /\ IF GpuKey(t) \notin DOMAIN PENDING_GPU_OPENS \/ ~read
     THEN UNCHANGED <<PENDING_GPU_OPENS, GPU_FD_MAP, GPU_OPEN_EVENTS>>
     ELSE LET pending == PENDING_GPU_OPENS[GpuKey(t)]
          IN  /\ PENDING_GPU_OPENS' = remove(PENDING_GPU_OPENS, GpuKey(t))
              /\ IF fd < 0
                 THEN UNCHANGED <<GPU_FD_MAP, GPU_OPEN_EVENTS>>
                 ELSE /\ GPU_FD_MAP' = insert(GPU_FD_MAP, <<t.tgid, fd>>,
                                              [gpu_index |-> pending.gpu_index])
                      /\ GPU_OPEN_EVENTS' =
                           IF reserved
                           THEN GPU_OPEN_EVENTS \cup
                                  {[gpu_index |-> pending.gpu_index, fd |-> fd,
                                    filename |-> pending.filename,
                                    pid |-> t.tgid,
                                    pathCall |-> pending.call,
                                    fdCall |-> kthread[t].call]}
                           ELSE GPU_OPEN_EVENTS
  /\ lastProbe' = Probe("exit", "gpu", t, PENDING_GPU_OPENS, GpuKey(t),
                        PENDING_GPU_OPENS')
  /\ UNCHANGED <<notKernVars, kcalls, PENDING_NCCL_OPS, VFS_START,
                 NCCL_EVENTS, VFS_EVENTS>>

\* struct file as the probes read it: file->f_inode at F_INODE_OFFSET may be
\* unreadable or null (inode = FALSE), inode->i_mode is a u16; kind is what
\* the file is
KFile(kind, inode, i_mode) == [kind |-> kind, inode |-> inode, i_mode |-> i_mode]
\* 0o100644, 0o140777, 0o010600, and a regular file whose inode is not read
KFiles == {KFile("regular", TRUE, 33188), KFile("socket", TRUE, 49663),
           KFile("fifo", TRUE, 4480), KFile("regular", FALSE, 33188)}

\* an is_regular_file that trusts every file pointer
is_regular_file_any(file_ptr) == TRUE

\* is_regular_file: (i_mode & S_IFMT) == S_IFREG; S_IFMT masks the bits of a
\* u16 above the low 65536 - S_IFMT
is_regular_file(file_ptr) ==
  /\ file_ptr.inode
  /\ file_ptr.i_mode - (file_ptr.i_mode % (65536 - S_IFMT)) = S_IFREG

\* match VFS_THRESHOLD_NS.get(&0) { Some(t) => *t, None => DEFAULT_THRESHOLD_NS }
vfs_threshold(map) == IF 0 \in DOMAIN map THEN map[0] ELSE DEFAULT_THRESHOLD_NS

\* u64::saturating_sub
saturating_sub(a, b) == IF a >= b THEN a - b ELSE 0

\* try_vfs_entry, on entry of vfs_read / vfs_write; arg: ctx.arg(0) is Some;
\* file_ptr: the file of the call; now: bpf_ktime_get_ns()
VfsEntry(t, op_type, arg, file_ptr, now) ==
  /\ kthread[t].op = "none"
  /\ kcalls < MaxKernelCalls
  /\ kcalls' = kcalls + 1
  /\ kthread' = [kthread EXCEPT ![t] =
       [op |-> IF op_type = VFS_OP_READ THEN "vfs_read" ELSE "vfs_write",
        call |-> kcalls + 1, file |-> file_ptr, start |-> now]]
  /\ IF arg
     THEN /\ VFS_START' = insert(VFS_START, VfsKey(t),
                                 [start_time |-> now, op_type |-> op_type,
                                  file_ptr |-> file_ptr, owner |-> t,
                                  call |-> kcalls + 1])
          /\ lastProbe' = Probe("entry", "vfs", t, VFS_START, VfsKey(t), VFS_START')
     ELSE /\ UNCHANGED VFS_START
          /\ lastProbe' = Probe("entry", "vfs", t, <<>>, VfsKey(t), <<>>)
  /\ UNCHANGED <<notKernVars, PENDING_NCCL_OPS, PENDING_GPU_OPENS,
                 GPU_FD_MAP, NCCL_EVENTS, GPU_OPEN_EVENTS, VFS_EVENTS>>

\* the VfsLatencyEvent both exit handlers submit; filename is read from the
\* file of the stored entry
VfsEvent(t, op_type, bytes, latency_ns, end_time, file_ptr) ==
  [pid |-> t.tgid, tid |-> t.tid, op_type |-> op_type, bytes |-> bytes,
   latency_ns |-> latency_ns, timestamp |-> end_time, filename |-> file_ptr.kind]

\* what a vfs exit probe found and left, together with the call that
\* returned: its file, its return value, the time it took, and whether an
\* event was submitted for it
VfsProbe(t, after, ret, took, submitted) ==
  [kind |-> "exit", map |-> "vfs", thread |-> t,
   found |-> VfsKey(t) \in DOMAIN VFS_START,
   owner |-> IF VfsKey(t) \in DOMAIN VFS_START THEN VFS_START[VfsKey(t)].owner ELSE t,
   left |-> VfsKey(t) \in DOMAIN after,
   op |-> kthread[t].op, file |-> kthread[t].file, ret |-> ret, took |-> took,
   emitted |-> submitted]

\* try_vfs_read_exit; ret: ctx.ret(); took: the time since the call's entry;
\* reserved: VFS_EVENTS.reserve returned a slot
VfsReadExit(t, ret, took, reserved) ==
  /\ kthread[t].op = "vfs_read"
  /\ kthread' = [kthread EXCEPT ![t] = NoCall]
  /\ IF VfsKey(t) \notin DOMAIN VFS_START
     THEN /\ UNCHANGED <<VFS_START, VFS_EVENTS>>
          /\ lastProbe' = VfsProbe(t, VFS_START, ret, took, FALSE)
     ELSE LET entry == VFS_START[VfsKey(t)]
              end_time == kthread[t].start + took
              latency_ns == saturating_sub(end_time, entry.start_time)
              threshold == vfs_threshold(thresholdMap["vfs_latency"])
              submit == /\ entry.op_type = VFS_OP_READ
                        /\ ret >= 0
                        /\ ~(ret < MIN_READ_BYTES /\ latency_ns < threshold)
                        /\ is_regular_file(entry.file_ptr)
                        /\ reserved
          IN  /\ VFS_START' = remove(VFS_START, VfsKey(t))
              /\ VFS_EVENTS' =
                   IF submit
                   THEN VFS_EVENTS \cup {VfsEvent(t, VFS_OP_READ, ret, latency_ns,
                                                  end_time, entry.file_ptr)}
                   ELSE VFS_EVENTS
              /\ lastProbe' = VfsProbe(t, VFS_START', ret, took, submit)
  /\ UNCHANGED <<notKernVars, kcalls, PENDING_NCCL_OPS,
                 PENDING_GPU_OPENS, GPU_FD_MAP, NCCL_EVENTS, GPU_OPEN_EVENTS>>

\* try_vfs_exit(ctx, VFS_OP_WRITE)
VfsWriteExit(t, ret, took, reserved) ==
  /\ kthread[t].op = "vfs_write"
  /\ kthread' = [kthread EXCEPT ![t] = NoCall]
  /\ IF VfsKey(t) \notin DOMAIN VFS_START
     THEN /\ UNCHANGED <<VFS_START, VFS_EVENTS>>
          /\ lastProbe' = VfsProbe(t, VFS_START, ret, took, FALSE)
     ELSE LET entry == VFS_START[VfsKey(t)]
              end_time == kthread[t].start + took
              latency_ns == saturating_sub(end_time, entry.start_time)
              threshold == vfs_threshold(thresholdMap["vfs_latency"])
              submit == /\ entry.op_type = VFS_OP_WRITE
                        /\ ~(latency_ns < threshold)
                        /\ ret >= 0
                        /\ reserved
          IN  /\ VFS_START' = remove(VFS_START, VfsKey(t))
              /\ VFS_EVENTS' =
                   IF submit
                   THEN VFS_EVENTS \cup {VfsEvent(t, VFS_OP_WRITE, ret, latency_ns,
                                                  end_time, entry.file_ptr)}
                   ELSE VFS_EVENTS
              /\ lastProbe' = VfsProbe(t, VFS_START', ret, took, submit)
  /\ UNCHANGED <<notKernVars, kcalls, PENDING_NCCL_OPS,
                 PENDING_GPU_OPENS, GPU_FD_MAP, NCCL_EVENTS, GPU_OPEN_EVENTS>>

(***************************************************************************)
(* Kernel side: the uprobes of SSL_read, SSL_write and SSL_do_handshake     *)
(***************************************************************************)
\* the probed functions; the _ex variants pass the address of the byte count
\* as their fourth argument
SslRwFns == {"SSL_read", "SSL_write", "SSL_read_ex", "SSL_write_ex"}
SslExFns == {"SSL_read_ex", "SSL_write_ex"}
SslFns == SslRwFns \cup {"SSL_do_handshake"}

\* let tid = get_current_tid()   (bpf_get_current_pid_tgid() as u32)
SslTid(t) == t.tid

\* Session::start: the two inserts, and the third when len_ptr is Some
\* (len_ptr = 0 stands for None)
Session_start(t, buf_addr, len_ptr) ==
  /\ START_NS' = insert(START_NS, SslTid(t), ktime + 1)
  /\ BUFS' = insert(BUFS, SslTid(t), buf_addr)
  /\ READBYTES_PTRS' = IF len_ptr # 0 THEN insert(READBYTES_PTRS, SslTid(t), len_ptr)
                       ELSE READBYTES_PTRS

\* Session::get_info: (ts, buf, len_ptr), 0 where the map has no entry
Session_get_info(t) ==
  [ts |-> IF SslTid(t) \in DOMAIN START_NS THEN START_NS[SslTid(t)] ELSE 0,
   buf |-> IF SslTid(t) \in DOMAIN BUFS THEN BUFS[SslTid(t)] ELSE 0,
   len_ptr |-> IF SslTid(t) \in DOMAIN READBYTES_PTRS
               THEN READBYTES_PTRS[SslTid(t)] ELSE 0]

\* Session::clear
Session_clear(t) ==
  /\ START_NS' = remove(START_NS, SslTid(t))
  /\ BUFS' = remove(BUFS, SslTid(t))
  /\ READBYTES_PTRS' = remove(READBYTES_PTRS, SslTid(t))

\* LlmDirection as u8
RwOf(fn) ==
  CASE fn \in {"SSL_read", "SSL_read_ex"} -> 0
    [] fn \in {"SSL_write", "SSL_write_ex"} -> 1
    [] OTHER -> 2

\* LlmEvent::capture_data at time now: ok says whether it returned Ok(());
\* ret: ctx.ret(); actual_len: the usize at len_ptr; len_read / buf_read:
\* whether bpf_probe_read_user / bpf_probe_read_user_buf succeed. The event
\* records the address its bytes were read from.
capture_data(t, fn, now, ret, actual_len, len_read, buf_read) ==
  LET info == Session_get_info(t)
      len == IF info.len_ptr # 0 THEN actual_len ELSE ret
      ev == [pid |-> t.tgid, tid |-> t.tid, timestamp |-> now, rw |-> RwOf(fn),
             is_handshake |-> IF fn = "SSL_do_handshake" THEN 1 ELSE 0,
             latency_ns |-> IF info.ts > 0 THEN now - info.ts ELSE 0,
             len |-> len, buf_addr |-> info.buf,
             buf_filled |-> IF info.buf > 0 THEN 1 ELSE 0]
  IN  [ok |-> /\ ret > 0
              /\ info.len_ptr # 0 => len_read
              /\ info.buf > 0 => buf_read,
       event |-> ev]

NoSslCall == [thread |-> 0, fn |-> "none", buf |-> 0, start |-> 0, end |-> 0, ret |-> 0,
              len |-> 0, nested |-> FALSE, probes_ok |-> FALSE, emitted |-> FALSE,
              event |-> [buf_filled |-> 0, buf_addr |-> 0, latency_ns |-> 0]]

\* probe_ssl_rw_enter, probe_ssl_rw_ex_enter and probe_ssl_do_handshake_enter:
\* thread t enters fn with buffer buf (arg 1) and, for the _ex variants, the
\* address len_ptr (arg 3). A handshake may start inside a read or write.
SslEnter(t, fn, buf, len_ptr) ==
  /\ ktime < MaxSslProbes
  /\ \/ sslStack[t] = <<>>
     \/ /\ Len(sslStack[t]) = 1
        /\ sslStack[t][1].fn \in SslRwFns
        /\ fn = "SSL_do_handshake"
  /\ ktime' = ktime + 1
  /\ IF fn = "SSL_do_handshake" THEN Session_start(t, 0, 0)
     ELSE IF fn \in SslExFns THEN Session_start(t, buf, len_ptr)
     ELSE Session_start(t, buf, 0)
  /\ sslStack' = [sslStack EXCEPT ![t] =
       Append(@, [fn |-> fn, buf |-> IF fn = "SSL_do_handshake" THEN 0 ELSE buf,
                  len_ptr |-> IF fn \in SslExFns THEN len_ptr ELSE 0,
                  start |-> ktime + 1, nested |-> FALSE])]
  /\ UNCHANGED <<notSessionVars, SSL_EVENTS, sslLast>>

\* the exit probes, all emit_llm_event: the innermost call of thread t
\* returns ret; reserved: SSL_EVENTS.reserve returned a slot
SslExit(t, ret, actual_len, reserved, len_read, buf_read) ==
  /\ sslStack[t] # <<>>
  /\ ktime < MaxSslProbes
  /\ LET n == Len(sslStack[t])
         call == sslStack[t][n]
         c == capture_data(t, call.fn, ktime + 1, ret, actual_len, len_read, buf_read)
         submit == reserved /\ c.ok
     IN  /\ ktime' = ktime + 1
         /\ SSL_EVENTS' = IF submit THEN Append(SSL_EVENTS, c.event) ELSE SSL_EVENTS
         /\ Session_clear(t)
         /\ sslStack' = [sslStack EXCEPT ![t] =
              IF n = 1 THEN <<>>
              ELSE <<[sslStack[t][1] EXCEPT !.nested = TRUE]>>]
         /\ sslLast' = [thread |-> t.tid, fn |-> call.fn, buf |-> call.buf,
                        start |-> call.start, end |-> ktime + 1, ret |-> ret,
                        len |-> IF call.len_ptr # 0 THEN actual_len ELSE ret,
                        nested |-> call.nested,
                        probes_ok |-> reserved /\ len_read /\ buf_read,
                        emitted |-> submit,
                        event |-> [buf_filled |-> c.event.buf_filled,
                                   buf_addr |-> c.event.buf_addr,
                                   latency_ns |-> c.event.latency_ns]]
  /\ UNCHANGED notSessionVars

\* no SSL call has been probed
SessionIdle ==
  /\ START_NS = <<>>
  /\ BUFS = <<>>
  /\ READBYTES_PTRS = <<>>
  /\ SSL_EVENTS = <<>>
  /\ sslStack = [t \in KThreads |-> <<>>]
  /\ ktime = 0
  /\ sslLast = NoSslCall

\* no probed call has been made
KernIdle ==
  /\ SessionIdle
  /\ kthread = [t \in KThreads |-> NoCall]
  /\ kcalls = 0
  /\ PENDING_NCCL_OPS = <<>>
  /\ PENDING_GPU_OPENS = <<>>
  /\ GPU_FD_MAP = <<>>
  /\ VFS_START = <<>>
  /\ NCCL_EVENTS = {}
  /\ GPU_OPEN_EVENTS = {}
  /\ VFS_EVENTS = {}
  /\ lastProbe = [kind |-> "none", map |-> "none", thread |-> CHOOSE t \in KThreads : TRUE,
                  found |-> FALSE, owner |-> CHOOSE t \in KThreads : TRUE,
                  left |-> FALSE]

(***************************************************************************)
(* spawn_ringbuf_handler::<T, F>: the drainer of one ring buffer           *)
(***************************************************************************)
\* std::mem::size_of::<T>() of the declared event type
size_of_T == 8
\* lengths of the frames the kernel side submits
FrameLens == {size_of_T - 1, size_of_T, size_of_T + 1}

\* if item.len() >= std::mem::size_of::<T>()
Deliverable_any(item) == item.len >= 0

Deliverable(item) == item.len >= size_of_T

\* the kernel side submits the next frame to the ring buffer
RbSubmit(len) ==
  /\ rbFrames < MaxFrames
  /\ rbFrames' = rbFrames + 1
  /\ rbRing' = Append(rbRing, [id |-> rbFrames + 1, len |-> len])
  /\ UNCHANGED <<notHandlerVars, rbPc, rbHasWork, rbTaken, rbHandled>>

\* while !shutdown.load(Relaxed) { let mut has_work = false; ...
RbCheck ==
  /\ rbPc = "check"
  /\ rbPc' = IF shutdown THEN "done" ELSE "next"
  /\ rbHasWork' = FALSE
  /\ UNCHANGED <<notHandlerVars, rbRing, rbFrames, rbTaken, rbHandled>>

\* while let Some(item) = ring_buf.next() { has_work = true;
\*   if item.len() >= size_of::<T>() { handler(read_unaligned(item)) } }
RbNext ==
  /\ rbPc = "next"
  /\ rbRing # <<>>
  /\ rbRing' = Tail(rbRing)
  /\ rbHasWork' = TRUE
  /\ rbTaken' = Append(rbTaken, Head(rbRing))
  /\ rbHandled' = IF Deliverable(Head(rbRing))
                  THEN Append(rbHandled, Head(rbRing).id)
                  ELSE rbHandled
  /\ UNCHANGED <<notHandlerVars, rbFrames, rbPc>>

\* ring_buf.next() returned None: sleep if the round had no work, then
\* test the shutdown flag again
RbEndRound ==
  /\ rbPc = "next"
  /\ rbRing = <<>>
  /\ rbPc' = IF rbHasWork THEN "check" ELSE "sleep"
  /\ UNCHANGED <<notHandlerVars, rbRing, rbFrames, rbHasWork, rbTaken, rbHandled>>

\* std::thread::sleep(POLL_INTERVAL_MS) returns
RbWake ==
  /\ rbPc = "sleep"
  /\ rbPc' = "check"
  /\ UNCHANGED <<notHandlerVars, rbRing, rbFrames, rbHasWork, rbTaken, rbHandled>>

\* the drainer has just been spawned on an empty ring buffer
HandlerIdle ==
  /\ rbRing = <<>>
  /\ rbFrames = 0
  /\ rbPc = "check"
  /\ rbHasWork = FALSE
  /\ rbTaken = <<>>
  /\ rbHandled = <<>>

(***************************************************************************)
(* lib.rs: HoneyBeeEngine::new                                             *)
(***************************************************************************)
\* bump_memlock_rlimit: ret is what setrlimit returned; the function's
\* Result is Ok (TRUE) or Err (FALSE).  A non-zero ret is warned about and
\* Ok(()) is returned all the same.
bump_memlock_rlimit(ret) == TRUE

\* bump_memlock_rlimit()?;
BumpMemlockRlimit ==
  /\ newPc = "bump"
  /\ \E ret \in {0, -1} :
       /\ setrlimitRet' = ret
       /\ newPc' = IF bump_memlock_rlimit(ret) THEN "load" ELSE "err"
  /\ UNCHANGED notStartVars

\* let mut bpf = Ebpf::load(bytecode)?; a failure of EbpfLogger::init is
\* only warned about; Ok(Self { settings, bpf })
LoadBytecode ==
  /\ newPc = "load"
  /\ \E loaded \in BOOLEAN : newPc' = IF loaded THEN "ok" ELSE "err"
  /\ UNCHANGED <<notStartVars, setrlimitRet>>

\* the engine has been constructed
StartIdle ==
  /\ newPc = "ok"
  /\ setrlimitRet = 0

(***************************************************************************)
(* file_access.rs (user and kernel side): the watched-path hash            *)
(***************************************************************************)
\* A u64 is a tuple of four 16-bit limbs, least significant first.
\* 0xcbf29ce484222325
FNV_OFFSET_BASIS == <<8997, 33826, 40164, 52210>>
\* 0x100000001b3
FNV_PRIME == <<435, 0, 256, 0>>
\* capacity of the file name buffers
MAX_FILENAME_LEN == 256

\* bitwise exclusive or of two n-bit numbers
RECURSIVE BitXor(_, _, _)
BitXor(a, b, n) ==
  IF n = 0 THEN 0
  ELSE (((a % 2) + (b % 2)) % 2) + 2 * BitXor(a \div 2, b \div 2, n - 1)

\* hash ^= b as u64
xor_byte(hash, b) == [hash EXCEPT ![1] = BitXor(@, b, 16)]

\* u64::wrapping_mul
wrapping_mul(a, b) ==
  LET c1 == a[1] * b[1]
      c2 == a[1] * b[2] + a[2] * b[1] + (c1 \div 65536)
      c3 == a[1] * b[3] + a[2] * b[2] + a[3] * b[1] + (c2 \div 65536)
      c4 == a[1] * b[4] + a[2] * b[3] + a[3] * b[2] + a[4] * b[1] + (c3 \div 65536)
  IN  <<c1 % 65536, c2 % 65536, c3 % 65536, c4 % 65536>>

\* one iteration of either loop on byte b:
\*   if b == 0 { break } hash ^= b as u64; hash = hash.wrapping_mul(prime)
hash_step(st, b) ==
  IF st.done \/ b = 0
  THEN [hash |-> st.hash, done |-> TRUE]
  ELSE [hash |-> wrapping_mul(xor_byte(st.hash, b), FNV_PRIME), done |-> FALSE]

\* the iterations on data[lo], ..., data[hi] in this order, as the first
\* half followed, unless the loop has ended there, by the second half
RECURSIVE hash_loop(_, _, _, _)
hash_loop(data, lo, hi, st) ==
  IF lo > hi THEN st
  ELSE IF lo = hi THEN hash_step(st, data[lo])
  ELSE LET mid == (lo + hi) \div 2
           first == hash_loop(data, lo, mid, st)
       IN  IF first.done THEN first ELSE hash_loop(data, mid + 1, hi, first)

\* user side: let mut hash = basis; for &b in data { ... }
simple_hash(data) ==
  hash_loop(data, 1, Len(data), [hash |-> FNV_OFFSET_BASIS, done |-> FALSE]).hash

\* kernel side: let mut hash = basis; while i < MAX_FILENAME_LEN { ... }
ebpf_simple_hash(data) ==
  hash_loop(data, 1, MAX_FILENAME_LEN,
            [hash |-> FNV_OFFSET_BASIS, done |-> FALSE]).hash

\* bpf_probe_read_user_str_bytes(filename_ptr, &mut [0u8; MAX_FILENAME_LEN]):
\* at most MAX_FILENAME_LEN - 1 bytes of the string, then NUL
bpf_probe_read_user_str_bytes(filename) ==
  [i \in 1..MAX_FILENAME_LEN |->
     IF i <= Len(filename) /\ i <= MAX_FILENAME_LEN - 1 THEN filename[i] ELSE 0]

\* bytes the watched paths are made of: '/', 'a' and 0xff
HashBytes == {47, 97, 255}
\* all the paths of at most MaxShortLen bytes
ShortPaths == UNION {[1..n -> HashBytes] : n \in 0..MaxShortLen}
\* paths around the capacity of the file name buffer
LongPaths ==
  {[i \in 1..n |-> IF i % 2 = 1 THEN 47 ELSE b] :
     n \in {MAX_FILENAME_LEN - 2, MAX_FILENAME_LEN - 1, MAX_FILENAME_LEN,
            MAX_FILENAME_LEN + 1, MAX_FILENAME_LEN + 44},
     b \in HashBytes}
HashInputs == ShortPaths \cup LongPaths

NoOpen == [filename |-> <<>>, hash |-> <<>>, emitted |-> FALSE]

\* populate_watched_paths: watched_map.insert(simple_hash(path.as_bytes()), 1, 0)
PopulateWatchedPaths ==
  /\ WATCHED_PATHS = {}
  /\ WATCHED_PATHS' = {simple_hash(hPath)}
  /\ UNCHANGED <<notHashVars, hPath, hOpen>>

\* try_sys_enter_openat for an openat of filename, up to the exact-match
\* test (no suffix is watched)
SysEnterOpenat(filename) ==
  /\ WATCHED_PATHS # {}
  /\ hOpen = NoOpen
  /\ LET hash == ebpf_simple_hash(bpf_probe_read_user_str_bytes(filename))
     IN  hOpen' = [filename |-> filename, hash |-> hash,
                   emitted |-> hash \in WATCHED_PATHS]
  /\ UNCHANGED <<notHashVars, hPath, WATCHED_PATHS>>

\* the file access probe watching path, before it is attached
HashInit(paths) ==
  /\ hPath \in paths
  /\ WATCHED_PATHS = {}
  /\ hOpen = NoOpen

(***************************************************************************)
(* llm/http/utils.rs: decode_chunked_body                                  *)
(***************************************************************************)
\* byte strings are sequences of byte values; b"\r\n"
CRLF == <<13, 10>>

\* find_pattern(&buffer[from - 1..], b"\r\n"): the first index >= from (from
\* 1) at which \r\n starts, 0 for None
find_crlf(buffer, from) ==
  LET hits == {i \in from..(Len(buffer) - 1) : buffer[i] = 13 /\ buffer[i + 1] = 10}
  IN  IF hits = {} THEN 0 ELSE Min(hits)

\* u8::is_ascii_whitespace / char::is_whitespace on the bytes used here
IsWhitespace(b) == b \in {9, 10, 11, 12, 13, 32}

\* str::trim
RECURSIVE trim(_)
trim(str) ==
  IF str = <<>> THEN <<>>
  ELSE IF IsWhitespace(Head(str)) THEN trim(Tail(str))
  ELSE IF IsWhitespace(str[Len(str)]) THEN trim(SubSeq(str, 1, Len(str) - 1))
  ELSE str

\* the value of one hexadecimal digit, -1 for any other byte
HexValue(b) ==
  IF b \in 48..57 THEN b - 48
  ELSE IF b \in 97..102 THEN b - 87
  ELSE IF b \in 65..70 THEN b - 55
  ELSE -1

\* usize::from_str_radix(str, 16): the number, -1 for Err; the strings
\* parsed here are too short to overflow
RECURSIVE from_str_radix_16(_, _)
from_str_radix_16(str, acc) ==
  IF str = <<>> THEN acc
  ELSE IF HexValue(Head(str)) < 0 THEN -1
  ELSE from_str_radix_16(Tail(str), 16 * acc + HexValue(Head(str)))

parse_chunk_size(size_str) ==
  LET t == trim(size_str)
      digits == IF t # <<>> /\ Head(t) = 43 THEN Tail(t) ELSE t
  IN  IF digits = <<>> THEN -1 ELSE from_str_radix_16(digits, 0)

\* if result.is_empty() { Cow::Borrowed(buffer) } else { Cow::Owned(result) }
cow_result_owned(buffer, result) == result

cow_result(buffer, result) == IF result = <<>> THEN buffer ELSE result

\* the while loop of decode_chunked_body from position pos (from 1) with the
\* bytes collected so far
RECURSIVE decode_loop(_, _, _)
decode_loop(buffer, pos, result) ==
  IF pos > Len(buffer) THEN result
  ELSE LET size_end == find_crlf(buffer, pos)
           chunk_size == parse_chunk_size(SubSeq(buffer, pos, size_end - 1))
           data_start == size_end + 2
           data_end == data_start + chunk_size
       IN  IF size_end = 0 THEN result
           ELSE IF chunk_size < 0 THEN result
           ELSE IF chunk_size = 0 THEN result
           ELSE IF data_end - 1 > Len(buffer)
                THEN result \o SubSeq(buffer, data_start, Len(buffer))
           ELSE decode_loop(buffer, data_end + 2,
                            result \o SubSeq(buffer, data_start, data_end - 1))

decode_chunked_body(buffer) ==
  IF find_crlf(buffer, 1) = 0 THEN buffer
  ELSE cow_result(buffer, decode_loop(buffer, 1, <<>>))

\* the hexadecimal size line of a chunk of n < 16 bytes
HexDigit(n) == IF n < 10 THEN <<48 + n>> ELSE <<87 + n>>

\* the chunked encoding of payload cut into chunks of the given sizes:
\* size line, CRLF, data, CRLF for each chunk, then the zero-size chunk
RECURSIVE encode_chunked(_, _)
encode_chunked(payload, sizes) ==
  IF sizes = <<>> THEN <<48>> \o CRLF \o CRLF
  ELSE HexDigit(Head(sizes)) \o CRLF \o SubSeq(payload, 1, Head(sizes)) \o CRLF
       \o encode_chunked(SubSeq(payload, Head(sizes) + 1, Len(payload)), Tail(sizes))

\* the ways of cutting n bytes into non-empty chunks
RECURSIVE Cuts(_)
Cuts(n) ==
  IF n = 0 THEN {<<>>}
  ELSE UNION {{<<k>> \o c : c \in Cuts(n - k)} : k \in 1..n}

\* payload bytes: '1', 'x', CR and LF
PayloadBytes == {49, 120, 13, 10}
ChunkPayloads == UNION {[1..n -> PayloadBytes] : n \in 0..MaxPayloadLen}

NotDecoded == <<>>

\* a response body E, a correct chunked encoding of P, has been buffered
ChunkInit(payloads) ==
  /\ cPayload \in payloads
  /\ cEncoded \in {encode_chunked(cPayload, c) : c \in Cuts(Len(cPayload))}
  /\ cDecoded = NotDecoded

\* decode_chunked_body is applied to E
DecodeOnce ==
  /\ Len(cDecoded) = 0
  /\ cDecoded' = <<decode_chunked_body(cEncoded)>>
  /\ UNCHANGED <<notChunkVars, cPayload, cEncoded>>

\* decode_chunked_body is applied to the result of the first decoding
DecodeAgain ==
  /\ Len(cDecoded) = 1
  /\ cDecoded' = Append(cDecoded, decode_chunked_body(cDecoded[1]))
  /\ UNCHANGED <<notChunkVars, cPayload, cEncoded>>

(***************************************************************************)
(* llm/http/utils.rs: extract_h2_json_all                                  *)
(***************************************************************************)
\* String::from_utf8_lossy on the bytes used here: every byte is ASCII but
\* 0xFF, which is no UTF-8 and becomes U+FFFD (EF BF BD)
RECURSIVE from_utf8_lossy(_)
from_utf8_lossy(buffer) ==
  IF buffer = <<>> THEN <<>>
  ELSE (IF Head(buffer) = 255 THEN <<239, 191, 189>> ELSE <<Head(buffer)>>)
       \o from_utf8_lossy(Tail(buffer))

\* text[search_pos..].find('{'), as an index of text (from 1), 0 for None
find_open_brace(text, search_pos) ==
  LET hits == {i \in search_pos..Len(text) : text[i] = 123}
  IN  IF hits = {} THEN 0 ELSE Min(hits)

\* the for loop of find_balanced_brace at index i: the index of the closing
\* brace, 0 for None
RECURSIVE brace_loop(_, _, _, _, _)
brace_loop(bytes, i, depth, in_string, escape) ==
  IF i > Len(bytes) THEN 0
  ELSE IF escape THEN brace_loop(bytes, i + 1, depth, in_string, FALSE)
  ELSE IF bytes[i] = 92 /\ in_string THEN brace_loop(bytes, i + 1, depth, in_string, TRUE)
  ELSE IF bytes[i] = 34 THEN brace_loop(bytes, i + 1, depth, ~in_string, FALSE)
  ELSE IF in_string THEN brace_loop(bytes, i + 1, depth, in_string, FALSE)
  ELSE IF bytes[i] = 123 THEN brace_loop(bytes, i + 1, depth + 1, in_string, FALSE)
  ELSE IF bytes[i] = 125
       THEN IF depth - 1 = 0 THEN i
            ELSE brace_loop(bytes, i + 1, depth - 1, in_string, FALSE)
  ELSE brace_loop(bytes, i + 1, depth, in_string, FALSE)

find_balanced_brace(bytes, start) == brace_loop(bytes, start, 0, FALSE, FALSE)

\* search_pos after an object was found from start to end
search_pos_inside(start, end) == start + 1

search_pos_after(start, end) == end + 1

\* the while loop of extract_h2_json_all
RECURSIVE extract_loop(_, _, _)
extract_loop(text, search_pos, results) ==
  LET start == find_open_brace(text, search_pos)
      end == find_balanced_brace(text, start)
  IN  IF start = 0 THEN results
      ELSE IF end # 0
           THEN extract_loop(text, search_pos_after(start, end),
                             Append(results, SubSeq(text, start, end)))
      ELSE extract_loop(text, start + 1, results)

extract_h2_json_all(buffer) == extract_loop(from_utf8_lossy(buffer), 1, <<>>)

\* valid JSON objects:  {}  {"":"}"}  {"":"\""}  {"":{}}  {"{":"\\"}
ValidObjects ==
  { <<123, 125>>,
    <<123, 34, 34, 58, 34, 125, 34, 125>>,
    <<123, 34, 34, 58, 34, 92, 34, 34, 125>>,
    <<123, 34, 34, 58, 123, 125, 125>>,
    <<123, 34, 123, 34, 58, 34, 92, 92, 34, 125>> }

\* the bytes around the objects: { } " \ x and 0xFF
FillBytes == {123, 125, 34, 92, 120, 255}
FillStrings == UNION {[1..n -> FillBytes] : n \in 0..MaxFillLen}

\* pfx json1 mid json2 sfx, with pfx, mid and sfx any cutting of a fill string
JsonInputs ==
  UNION {UNION {{[pfx |-> SubSeq(s, 1, a), json1 |-> j[1], mid |-> SubSeq(s, a + 1, b),
                  json2 |-> j[2], sfx |-> SubSeq(s, b + 1, Len(s))]
                 : j \in ValidObjects \X ValidObjects, b \in a..Len(s)}
                : a \in 0..Len(s)}
         : s \in FillStrings}

Concat(in) == in.pfx \o in.json1 \o in.mid \o in.json2 \o in.sfx

NotExtracted == [done |-> FALSE, objects |-> <<>>]

JsonInit(inputs) ==
  /\ jBuffer \in inputs
  /\ jResults = NotExtracted

\* extract_h2_json_all is applied to the buffer
ExtractAll ==
  /\ ~jResults.done
  /\ jResults' = [done |-> TRUE, objects |-> extract_h2_json_all(Concat(jBuffer))]
  /\ UNCHANGED <<notJsonVars, jBuffer>>

(***************************************************************************)
(* k8s.rs: PodResolver                                                     *)
(***************************************************************************)
\* the handler threads that share the resolver
RThreads == {"ssl", "net"}

\* the processes of the host: pid, cgroup id, and the short container id that
\* /proc/<pid>/cgroup names ("none": no line of it names a container)
RProcs ==
  { [pid |-> 1, cgroup_id |-> 7, container_id |-> "c1"],
    [pid |-> 2, cgroup_id |-> 7, container_id |-> "c1"],
    [pid |-> 3, cgroup_id |-> 9, container_id |-> "none"] }

\* the pods of the node, with the short ids of their containers
RPods == {[name |-> "pod-a", container_ids |-> {"c1"}]}

\* extract_container_id(pid): None when the file cannot be read
extract_container_id(pid, live) ==
  IF pid \in live THEN (CHOOSE p \in RProcs : p.pid = pid).container_id ELSE "none"

\* pod_store.get(container_id)
pod_store_get(store, container_id) ==
  IF container_id \in DOMAIN store THEN store[container_id] ELSE "none"

RIdle == [pc |-> "idle", cgroup_id |-> 0, container_id |-> "none", wasNegative |-> FALSE]

NoOp == [op |-> "none", cgroup_id |-> 0, wasNegative |-> FALSE, readProc |-> FALSE,
         result |-> "none", negatives |-> {}]

\* resolve, up to the cache insert: the fast path returns from the cache; the
\* slow path reads /proc/<pid>/cgroup
ResolveLookup(t, ev) ==
  /\ rthread[t].pc = "idle"
  /\ IF ev.cgroup_id \in DOMAIN cgroup_cache
     THEN /\ rLast' = [NoOp EXCEPT !.op = "resolve", !.cgroup_id = ev.cgroup_id,
                         !.wasNegative = ev.cgroup_id \in negative,
                         !.result = IF cgroup_cache[ev.cgroup_id] = "none" THEN "none"
                                    ELSE pod_store_get(pod_store, cgroup_cache[ev.cgroup_id])]
          /\ UNCHANGED rthread
     ELSE /\ rthread' = [rthread EXCEPT ![t] =
                           [pc |-> "insert", cgroup_id |-> ev.cgroup_id,
                            container_id |-> extract_container_id(ev.pid, alive),
                            wasNegative |-> ev.cgroup_id \in negative]]
          /\ rLast' = NoOp
  /\ UNCHANGED <<notResolverVars, node, rwlock, cgroup_cache, pod_store, alive, watcher, negative>>

\* cache.insert(cgroup_id, container_id.clone())
ResolveInsert(t) ==
  /\ rthread[t].pc = "insert"
  /\ cgroup_cache' = insert(cgroup_cache, rthread[t].cgroup_id, rthread[t].container_id)
  /\ rthread' = [rthread EXCEPT ![t].pc = "store"]
  /\ rLast' = NoOp
  /\ UNCHANGED <<notResolverVars, node, rwlock, pod_store, alive, watcher, negative>>

\* container_id.and_then(|cid| pod_store.get(&cid)): resolve returns
ResolveReturn(t) ==
  /\ rthread[t].pc = "store"
  /\ rLast' = [NoOp EXCEPT !.op = "resolve", !.cgroup_id = rthread[t].cgroup_id,
                 !.wasNegative = rthread[t].wasNegative, !.readProc = TRUE,
                 !.result = IF rthread[t].container_id = "none" THEN "none"
                            ELSE pod_store_get(pod_store, rthread[t].container_id)]
  /\ negative' = IF rthread[t].container_id = "none"
                 THEN negative \cup {rthread[t].cgroup_id} ELSE negative
  /\ rthread' = [rthread EXCEPT ![t] = RIdle]
  /\ UNCHANGED <<notResolverVars, node, rwlock, cgroup_cache, pod_store, alive, watcher>>

\* apply_pod_event(pod, false)
ApplyPod(pod) ==
  /\ watcher = "idle"
  /\ pod_store' = [c \in DOMAIN pod_store \cup pod.container_ids |->
                     IF c \in pod.container_ids THEN pod.name ELSE pod_store[c]]
  /\ node' = insert(node, pod.name, pod.container_ids)
  /\ rLast' = [NoOp EXCEPT !.op = "apply"]
  /\ UNCHANGED <<notResolverVars, rwlock, cgroup_cache, alive, rthread, watcher, negative>>

\* apply_pod_event(pod, true), first the pod store
DeletePodStore(pod) ==
  /\ watcher = "idle"
  /\ pod_store' = [c \in DOMAIN pod_store \ pod.container_ids |-> pod_store[c]]
  /\ watcher' = pod.name
  /\ node' = remove(node, pod.name)
  /\ rLast' = NoOp
  /\ UNCHANGED <<notResolverVars, rwlock, cgroup_cache, alive, rthread, negative>>

\* cache.retain(|_, v| v.as_ref().map(|id| !container_ids.contains(id)).unwrap_or(true))
retain_not_deleted(cache, container_ids) ==
  [g \in {x \in DOMAIN cache : cache[x] = "none" \/ cache[x] \notin container_ids}
     |-> cache[g]]

\* apply_pod_event(pod, true), then the cgroup cache
DeletePodCache(pod) ==
  /\ watcher = pod.name
  /\ cgroup_cache' = retain_not_deleted(cgroup_cache, pod.container_ids)
  /\ watcher' = "idle"
  /\ rLast' = [NoOp EXCEPT !.op = "delete"]
  /\ UNCHANGED <<notResolverVars, node, rwlock, pod_store, alive, rthread, negative>>

\* a cleanup that drops every entry without a pod, negative ones included
retain_in_store_only(cache, store) ==
  [g \in {x \in DOMAIN cache : cache[x] \in DOMAIN store} |-> cache[g]]

\* cgroup_cache.retain(|_, v| v.as_ref().map(|cid| pod_store.contains_key(cid))
\*                                     .unwrap_or(true))
retain_in_store(cache, store) ==
  [g \in {x \in DOMAIN cache : cache[x] = "none" \/ cache[x] \in DOMAIN store}
     |-> cache[g]]

\* start_cache_cleanup_task: one round, holding both locks
CacheCleanup ==
  /\ ~shutdown
  /\ cgroup_cache' = retain_in_store(cgroup_cache, pod_store)
  /\ rLast' = [NoOp EXCEPT !.op = "cleanup",
                 !.negatives = {g \in DOMAIN cgroup_cache : cgroup_cache[g] = "none"}]
  /\ UNCHANGED <<notResolverVars, node, rwlock, pod_store, alive, rthread, watcher, negative>>

\* a process of the host exits
ProcExit(pid) ==
  /\ pid \in alive
  /\ alive' = alive \ {pid}
  /\ rLast' = NoOp
  /\ UNCHANGED <<notResolverVars, node, rwlock, cgroup_cache, pod_store, rthread, watcher, negative>>

(***************************************************************************)
(* k8s.rs: the same operations, one step per RwLock acquisition            *)
(***************************************************************************)
\* the threads and tasks that take the locks of the resolver
LockProcs == RThreads \cup {"watcher", "cleanup"}

\* RwLock::new: nobody holds the lock
Unheld == [readers |-> {}, writer |-> "none"]

\* the position of a thread or task that is not inside an operation
LIdle == [pc |-> "idle", pid |-> 0, cgroup_id |-> 0, container_id |-> "none",
          container_ids |-> {}, pod_name |-> "none", is_delete |-> FALSE]

\* PodResolver::new; writers_first: a writer that waits for a lock blocks
\* new readers of it (std::sync::RwLock leaves the policy to the platform)
Unlocked(writers_first) ==
  [writers_first |-> writers_first, cgroup_cache |-> Unheld, pod_store |-> Unheld,
   proc |-> [p \in LockProcs |-> LIdle]]

\* the lock a position waits for, and how
ReadPcs == {"cache_read", "fast_store_read", "slow_store_read", "cleanup_store_read"}
WritePcs == {"cache_write", "store_write", "delete_cache_write", "cleanup_cache_write"}
WantedLock(at) ==
  IF at \in {"cache_read", "cache_write", "delete_cache_write", "cleanup_cache_write"}
  THEN "cgroup_cache" ELSE "pod_store"

\* the writers that wait for lock l
WaitingWriters(l) ==
  {q \in LockProcs : rwlock.proc[q].pc \in WritePcs /\ WantedLock(rwlock.proc[q].pc) = l}

\* RwLock::read returns
CanRead(l) ==
  /\ rwlock[l].writer = "none"
  /\ rwlock.writers_first => WaitingWriters(l) = {}

\* RwLock::write returns
CanWrite(l) == rwlock[l].writer = "none" /\ rwlock[l].readers = {}

\* resolve(pid, cgroup_id) is called on thread t
LockResolve(t, ev) ==
  /\ rwlock.proc[t].pc = "idle"
  /\ rwlock' = [rwlock EXCEPT !.proc[t] =
       [LIdle EXCEPT !.pc = "cache_read", !.pid = ev.pid, !.cgroup_id = ev.cgroup_id]]
  /\ UNCHANGED <<notResolverVars, node, cgroup_cache, pod_store, alive, rthread, watcher,
                 negative, rLast>>

\* if let Ok(cache) = self.cgroup_cache.read() && let Some(cached) = cache.get(..):
\* on Some(container_id) the guard is held into the match arm; on None the
\* call returns; on a miss the guard is dropped and /proc/<pid>/cgroup is read
LockCacheRead(t) ==
  LET me == rwlock.proc[t] IN
  /\ me.pc = "cache_read"
  /\ CanRead("cgroup_cache")
  /\ rwlock' =
       IF me.cgroup_id \in DOMAIN cgroup_cache
       THEN IF cgroup_cache[me.cgroup_id] # "none"
            THEN [rwlock EXCEPT
                    !.cgroup_cache.readers = @ \cup {t},
                    !.proc[t].pc = "fast_store_read",
                    !.proc[t].container_id = cgroup_cache[me.cgroup_id]]
            ELSE [rwlock EXCEPT !.proc[t] = LIdle]
       ELSE [rwlock EXCEPT
               !.proc[t].pc = "cache_write",
               !.proc[t].container_id = extract_container_id(me.pid, alive)]
  /\ UNCHANGED <<notResolverVars, node, cgroup_cache, pod_store, alive, rthread, watcher,
                 negative, rLast>>

\* Some(container_id) => self.pod_store.read().ok()?.get(container_id).cloned():
\* the store is read under the cache guard, then both guards are dropped
LockFastStoreRead(t) ==
  /\ rwlock.proc[t].pc = "fast_store_read"
  /\ CanRead("pod_store")
  /\ rwlock' = [rwlock EXCEPT !.cgroup_cache.readers = @ \ {t}, !.proc[t] = LIdle]
  /\ UNCHANGED <<notResolverVars, node, cgroup_cache, pod_store, alive, rthread, watcher,
                 negative, rLast>>

\* if let Ok(mut cache) = self.cgroup_cache.write() { cache.insert(..) }
LockCacheInsert(t) ==
  LET me == rwlock.proc[t] IN
  /\ me.pc = "cache_write"
  /\ CanWrite("cgroup_cache")
  /\ cgroup_cache' = insert(cgroup_cache, me.cgroup_id, me.container_id)
  /\ rwlock' = IF me.container_id = "none"
               THEN [rwlock EXCEPT !.proc[t] = LIdle]
               ELSE [rwlock EXCEPT !.proc[t].pc = "slow_store_read"]
  /\ UNCHANGED <<notResolverVars, node, pod_store, alive, rthread, watcher, negative, rLast>>

\* container_id.and_then(|cid| self.pod_store.read().ok()?.get(&cid).cloned())
LockSlowStoreRead(t) ==
  /\ rwlock.proc[t].pc = "slow_store_read"
  /\ CanRead("pod_store")
  /\ rwlock' = [rwlock EXCEPT !.proc[t] = LIdle]
  /\ UNCHANGED <<notResolverVars, node, cgroup_cache, pod_store, alive, rthread, watcher,
                 negative, rLast>>

\* the watcher task calls apply_pod_event(pod, is_delete)
LockPodEvent(pod, is_delete) ==
  /\ rwlock.proc["watcher"].pc = "idle"
  /\ rwlock' = [rwlock EXCEPT !.proc["watcher"] =
       [LIdle EXCEPT !.pc = "store_write", !.container_ids = pod.container_ids,
                     !.pod_name = pod.name, !.is_delete = is_delete]]
  /\ UNCHANGED <<notResolverVars, node, cgroup_cache, pod_store, alive, rthread, watcher,
                 negative, rLast>>

\* if let Ok(mut store) = self.pod_store.write() { remove or insert each id }
LockStoreWrite ==
  LET me == rwlock.proc["watcher"] IN
  /\ me.pc = "store_write"
  /\ CanWrite("pod_store")
  /\ IF me.is_delete
     THEN /\ pod_store' = [c \in DOMAIN pod_store \ me.container_ids |-> pod_store[c]]
          /\ rwlock' = [rwlock EXCEPT !.proc["watcher"].pc = "delete_cache_write"]
          /\ node' = remove(node, me.pod_name)
     ELSE /\ pod_store' = [c \in DOMAIN pod_store \cup me.container_ids |->
                             IF c \in me.container_ids THEN me.pod_name ELSE pod_store[c]]
          /\ rwlock' = [rwlock EXCEPT !.proc["watcher"] = LIdle]
          /\ node' = insert(node, me.pod_name, me.container_ids)
  /\ UNCHANGED <<notResolverVars, cgroup_cache, alive, rthread, watcher, negative, rLast>>

\* if let Ok(mut cache) = self.cgroup_cache.write() { cache.retain(..) }
LockDeleteCacheWrite ==
  LET me == rwlock.proc["watcher"] IN
  /\ me.pc = "delete_cache_write"
  /\ CanWrite("cgroup_cache")
  /\ cgroup_cache' = retain_not_deleted(cgroup_cache, me.container_ids)
  /\ rwlock' = [rwlock EXCEPT !.proc["watcher"] = LIdle]
  /\ UNCHANGED <<notResolverVars, node, pod_store, alive, rthread, watcher, negative, rLast>>

\* start_cache_cleanup_task: interval.tick() returns and the flag is clear
LockCleanupTick ==
  /\ ~shutdown
  /\ rwlock.proc["cleanup"].pc = "idle"
  /\ rwlock' = [rwlock EXCEPT !.proc["cleanup"].pc = "cleanup_store_read"]
  /\ UNCHANGED <<notResolverVars, node, cgroup_cache, pod_store, alive, rthread, watcher,
                 negative, rLast>>

\* (resolver.pod_store.read(), resolver.cgroup_cache.write()): the first
\* element of the tuple
LockCleanupStoreRead ==
  /\ rwlock.proc["cleanup"].pc = "cleanup_store_read"
  /\ CanRead("pod_store")
  /\ rwlock' = [rwlock EXCEPT !.pod_store.readers = @ \cup {"cleanup"},
                              !.proc["cleanup"].pc = "cleanup_cache_write"]
  /\ UNCHANGED <<notResolverVars, node, cgroup_cache, pod_store, alive, rthread, watcher,
                 negative, rLast>>

\* the second element of the tuple, the retain, and the drop of both guards
LockCleanupCacheWrite ==
  /\ rwlock.proc["cleanup"].pc = "cleanup_cache_write"
  /\ CanWrite("cgroup_cache")
  /\ cgroup_cache' = retain_in_store(cgroup_cache, pod_store)
  /\ rwlock' = [rwlock EXCEPT !.pod_store.readers = @ \ {"cleanup"},
                              !.proc["cleanup"] = LIdle]
  /\ UNCHANGED <<notResolverVars, node, pod_store, alive, rthread, watcher, negative, rLast>>

\* PodResolver::new, on a host with the given processes and lock policies
ResolverInitLocks(pids, policies) ==
  /\ rwlock \in {Unlocked(writers_first) : writers_first \in policies}
  /\ node = [n \in {} |-> {}]
  /\ cgroup_cache = [g \in {} |-> "none"]
  /\ pod_store = [c \in {} |-> "none"]
  /\ alive = pids
  /\ rthread = [t \in RThreads |-> RIdle]
  /\ watcher = "idle"
  /\ negative = {}
  /\ rLast = NoOp

ResolverInit(pids) == ResolverInitLocks(pids, {FALSE})

(***************************************************************************)
(* lib.rs: attach_probes, the probes with a latency threshold              *)
(***************************************************************************)
ThresholdProbes == {"vfs_latency", "runqueue", "offcpu"}

\* Option<u32>: None, or Some(ms)
None == [some |-> FALSE, ms |-> 0]
Some(ms) == [some |-> TRUE, ms |-> ms]

\* thresholds in ms; 2000 ms is the largest whose nanoseconds fit the
\* integers of the model (the u64 product of the code cannot overflow)
ThresholdsMs == {None, Some(5), Some(2000)}

\* threshold_ns of VfsLatencyProbe::default
VFS_DEFAULT_THRESHOLD_NS == 10000000

\* probe.threshold_ns after
\* if let Some(threshold_ms) = .. { probe.threshold_ns = u64::from(threshold_ms) * 1_000_000 }
threshold_ns_of(default, threshold_ms) ==
  IF threshold_ms.some THEN threshold_ms.ms * 1000000 ELSE default

NoEntries == [k \in {} |-> 0]

\* VfsLatencyProbe::set_threshold: threshold_map.insert(0, self.threshold_ns, 0)
set_threshold(map, threshold_ns) == insert(map, 0, threshold_ns)

\* the vfs_latency block of attach_probes; VfsLatencyProbe::attach fails
\* before the write when the map is missing, or after it when a kprobe
\* cannot be attached
AttachVfsLatency(outcome) ==
  /\ attachPc = "vfs_latency"
  /\ attachPc' = "runqueue"
  /\ IF builtin["vfs_latency"].on
     THEN LET threshold_ns == threshold_ns_of(VFS_DEFAULT_THRESHOLD_NS,
                                              builtin["vfs_latency"].threshold_ms)
          IN  /\ thresholdMap' =
                   IF outcome = "no_map" THEN thresholdMap
                   ELSE [thresholdMap EXCEPT !["vfs_latency"] = set_threshold(@, threshold_ns)]
              /\ attached' = IF outcome = "ok" THEN attached \cup {"vfs_latency"}
                             ELSE attached
     ELSE UNCHANGED <<thresholdMap, attached>>
  /\ UNCHANGED <<notThresholdVars, builtin>>

\* the runqueue block of attach_probes; RunqueueLatencyProbe::attach attaches
\* two tracepoints and spawns the handler
AttachRunqueue(outcome) ==
  /\ attachPc = "runqueue"
  /\ attachPc' = "offcpu"
  /\ attached' = IF builtin["runqueue"].on /\ outcome = "ok"
                 THEN attached \cup {"runqueue"} ELSE attached
  /\ UNCHANGED <<notThresholdVars, builtin, thresholdMap>>

\* the offcpu block of attach_probes; OffCpuProbe::attach attaches one
\* tracepoint and spawns the handler
AttachOffcpu(outcome) ==
  /\ attachPc = "offcpu"
  /\ attachPc' = "done"
  /\ attached' = IF builtin["offcpu"].on /\ outcome = "ok"
                 THEN attached \cup {"offcpu"} ELSE attached
  /\ UNCHANGED <<notThresholdVars, builtin, thresholdMap>>

\* the settings are loaded and the kernel maps are empty
ThresholdInit(switches, thresholds) ==
  /\ builtin \in [ThresholdProbes -> [on : switches, threshold_ms : thresholds]]
  /\ thresholdMap = [p \in ThresholdProbes |-> NoEntries]
  /\ attached = {}
  /\ attachPc = "vfs_latency"

(***************************************************************************)
(* llm/http/providers/config.rs: ProviderRegistry::find_provider           *)
(***************************************************************************)
\* strings are sequences of characters; pat is found in s at index i
matches_at(s, pat, i) ==
  /\ i + Len(pat) - 1 <= Len(s)
  /\ \A k \in 1..Len(pat) : s[i + k - 1] = pat[k]

\* str::contains(pat): the search over every start index
str_contains(s, pat) == \E i \in 1..(Len(s) + 1) : matches_at(s, pat, i)

\* list.iter().any(|pat| s.contains(pat))
any_contained(list, s) == \E j \in 1..Len(list) : str_contains(s, list[j])

\* a closure that is satisfied with one of host_match and path_match
provider_matches_either(p, host, path) ==
  \/ Len(p.hosts) = 0 \/ any_contained(p.hosts, host)
  \/ Len(p.paths) = 0 \/ any_contained(p.paths, path)

\* the closure of find_provider: host_match && path_match
provider_matches(p, host, path) ==
  /\ Len(p.hosts) = 0 \/ any_contained(p.hosts, host)
  /\ Len(p.paths) = 0 \/ any_contained(p.paths, path)

\* self.providers.iter().find(..) from index i: the index of the provider
\* returned, 0 for None
RECURSIVE find_from(_, _, _, _)
find_from(providers, i, host, path) ==
  IF i > Len(providers) THEN 0
  ELSE IF provider_matches(providers[i], host, path) THEN i
  ELSE find_from(providers, i + 1, host, path)

find_provider(providers, host, path) == find_from(providers, 1, host, path)

\* hosts and paths over the characters 1 and 2, and lists of patterns: no
\* pattern, one pattern, two patterns, the empty pattern
FindStrings == {<<>>, <<1>>, <<2, 1>>, <<1, 2, 1>>}
PatternLists == {<<>>, << <<1>> >>, << <<1, 2>>, <<2>> >>, << <<>> >>}
Registries ==
  UNION {[1..n -> [hosts : PatternLists, paths : PatternLists]] : n \in 0..MaxProviders}

NotFound == [done |-> FALSE, index |-> 0]

FindInit(registries, strings) ==
  /\ fpInput \in [providers : registries, host : strings, path : strings]
  /\ fpResult = NotFound

\* find_provider is applied to the host and the path
FindProvider ==
  /\ ~fpResult.done
  /\ fpResult' = [done |-> TRUE,
                  index |-> find_provider(fpInput.providers, fpInput.host, fpInput.path)]
  /\ UNCHANGED <<notFindVars, fpInput>>

(***************************************************************************)
(* llm/http/protocol.rs: parse_response_json_value                         *)
(* llm/http/providers/usage.rs: ConfigurableProvider::parse_usage          *)
(***************************************************************************)
\* serde_json::Value: an object maps keys to values; a number is a
\* non-negative integer (u64), a negative integer (i64) or a float (f64);
\* Absent stands for the None of Option<&Value>
Absent == [t |-> "absent"]
Null == [t |-> "null"]
Str(str) == [t |-> "str", s |-> str]
Num(kind, v) == [t |-> "num", kind |-> kind, v |-> v]
\* the object with the keys of f that have a value
Obj(f) == [t |-> "obj", o |-> [k \in {x \in DOMAIN f : f[x] # Absent} |-> f[k]]]

\* Value::get(key)
get(val, key) == IF val.t = "obj" /\ key \in DOMAIN val.o THEN val.o[key] ELSE Absent

\* get_nested_value(json, path), path.split('.') being the sequence path
RECURSIVE get_nested_value(_, _)
get_nested_value(json, path) ==
  IF path = <<>> THEN json
  ELSE IF get(json, Head(path)) = Absent THEN Absent
  ELSE get_nested_value(get(json, Head(path)), Tail(path))

\* Value::as_u64 and Value::as_str
as_u64(v) == IF v.t = "num" /\ v.kind = "u64" THEN [some |-> TRUE, v |-> v.v]
             ELSE [some |-> FALSE, v |-> 0]
as_str(v) == IF v.t = "str" THEN [some |-> TRUE, s |-> v.s] ELSE [some |-> FALSE, s |-> ""]

NoUsageInfo == [some |-> FALSE]
UsageInfo(prompt, completion, thoughts, model) ==
  [some |-> TRUE, prompt_tokens |-> prompt, completion_tokens |-> completion,
   thoughts_tokens |-> thoughts, model |-> model]

\* ConfigurableProvider::parse_usage with the ResponseConfig config
parse_usage(config, json) ==
  LET usage == get_nested_value(json, config.usage_path)
      prompt == as_u64(get_nested_value(usage, config.prompt_tokens))
      completion == as_u64(get_nested_value(usage, config.completion_tokens))
      thoughts == IF config.thoughts_tokens = <<>> THEN as_u64(Absent)
                  ELSE as_u64(get_nested_value(usage, config.thoughts_tokens))
      model == as_str(get_nested_value(json, config.model_path))
  IN  IF usage = Absent THEN NoUsageInfo
      ELSE IF ~prompt.some THEN NoUsageInfo
      ELSE IF ~completion.some THEN NoUsageInfo
      ELSE UsageInfo(prompt.v, completion.v, thoughts, model)

\* ProviderRegistry::with_defaults: the ResponseConfig of openai, anthropic
\* and gemini, each path split at its dots (no thoughts path: <<>>)
with_defaults ==
  << [name |-> "openai", usage_path |-> <<"usage">>,
      prompt_tokens |-> <<"prompt_tokens">>,
      completion_tokens |-> <<"completion_tokens">>,
      thoughts_tokens |-> <<"completion_tokens_details", "reasoning_tokens">>,
      model_path |-> <<"model">>],
     [name |-> "anthropic", usage_path |-> <<"usage">>,
      prompt_tokens |-> <<"input_tokens">>,
      completion_tokens |-> <<"output_tokens">>,
      thoughts_tokens |-> <<>>,
      model_path |-> <<"model">>],
     [name |-> "gemini", usage_path |-> <<"usageMetadata">>,
      prompt_tokens |-> <<"promptTokenCount">>,
      completion_tokens |-> <<"candidatesTokenCount">>,
      thoughts_tokens |-> <<"thoughtsTokenCount">>,
      model_path |-> <<"modelVersion">>] >>

\* for provider in get_providers() { if let Some(info) = provider.parse_usage(val) .. }
RECURSIVE first_usage(_, _, _)
first_usage(providers, i, val) ==
  IF i > Len(providers) THEN NoUsageInfo
  ELSE IF parse_usage(providers[i], val).some THEN parse_usage(providers[i], val)
  ELSE first_usage(providers, i + 1, val)

\* parse_response_json_value without the check for an error response
parse_response_json_value_unchecked(val, providers) == first_usage(providers, 1, val)

parse_response_json_value(val, providers) ==
  IF get(val, "error") # Absent
  THEN UsageInfo(0, 0, as_u64(Absent), as_str(Absent))
  ELSE first_usage(providers, 1, val)

\* response values: error, usage, usageMetadata, model and modelVersion are
\* there or not; the token fields are missing, counts, negative, floats or
\* strings
UsageObjects ==
  {Absent, Str("n/a")} \cup
  {Obj([prompt_tokens |-> p, completion_tokens |-> c, input_tokens |-> i,
        output_tokens |-> o]) :
     p \in {Absent, Num("u64", 10), Num("f64", 10)},
     c \in {Absent, Num("u64", 20), Num("i64", -1)},
     i \in {Absent, Num("u64", 11), Str("11")},
     o \in {Absent, Num("u64", 21)}}
UsageMetadataObjects ==
  {Absent} \cup
  {Obj([promptTokenCount |-> p, candidatesTokenCount |-> c, thoughtsTokenCount |-> t]) :
     p \in {Absent, Num("u64", 15)},
     c \in {Absent, Num("u64", 25), Num("f64", 25)},
     t \in {Absent, Num("u64", 100)}}
ResponseValues ==
  {Str("ok")} \cup
  {Obj([error |-> e, usage |-> u, usageMetadata |-> m, model |-> n, modelVersion |-> n]) :
     e \in {Absent, Null}, u \in UsageObjects, m \in UsageMetadataObjects,
     n \in {Absent, Str("m-1")}}

NotParsed == [done |-> FALSE, info |-> NoUsageInfo]

UsageInit(values) ==
  /\ prValue \in values
  /\ prResult = NotParsed

\* parse_response_json_value is applied to the value, with the cached
\* providers of the built-in registry
ParseResponseValue ==
  /\ ~prResult.done
  /\ prResult' = [done |-> TRUE, info |-> parse_response_json_value(prValue, with_defaults)]
  /\ UNCHANGED <<notUsageVars, prValue>>

(***************************************************************************)
(* k8s.rs: parse_container_id_from_cgroup_line, is_container_id            *)
(***************************************************************************)
\* a line is a sequence of one-character strings
CONTAINER_ID_LEN == 64
SHORT_ID_LEN == 12
kubepods == <<"k", "u", "b", "e", "p", "o", "d", "s">>
docker == <<"d", "o", "c", "k", "e", "r">>
containerd == <<"c", "o", "n", "t", "a", "i", "n", "e", "r", "d">>
dot_scope == <<".", "s", "c", "o", "p", "e">>
ascii_hexdigit ==
  {"0", "1", "2", "3", "4", "5", "6", "7", "8", "9",
   "a", "b", "c", "d", "e", "f", "A", "B", "C", "D", "E", "F"}

NoStr == [some |-> FALSE, s |-> <<>>]
SomeStr(str) == [some |-> TRUE, s |-> str]

\* str::find(c) from index from on: the first index of c, 0 when there is none
find_char(s, c, from) ==
  LET at == {i \in from..Len(s) : s[i] = c}
  IN  IF at = {} THEN 0 ELSE Min(at)

\* line.splitn(3, ':').nth(2): what follows the second colon
splitn_3_nth_2(line) ==
  LET first == find_char(line, ":", 1)
      second == find_char(line, ":", first + 1)
  IN  IF first = 0 \/ second = 0 THEN NoStr
      ELSE SomeStr(SubSeq(line, second + 1, Len(line)))

\* s.rsplit(c).next(): what follows the last c, all of s when there is none
rsplit_next(s, c) ==
  LET at == {i \in 1..Len(s) : s[i] = c}
  IN  IF at = {} THEN s
      ELSE SubSeq(s, (CHOOSE i \in at : \A j \in at : j <= i) + 1, Len(s))

ends_with(s, suffix) ==
  /\ Len(suffix) <= Len(s)
  /\ SubSeq(s, Len(s) - Len(suffix) + 1, Len(s)) = suffix

\* str::trim_end_matches(suffix): the suffix is removed as often as it is there
RECURSIVE trim_end_matches(_, _)
trim_end_matches(s, suffix) ==
  IF ends_with(s, suffix)
  THEN trim_end_matches(SubSeq(s, 1, Len(s) - Len(suffix)), suffix)
  ELSE s

\* is_container_id for lower-case digits only
is_container_id_lower_case(s) ==
  /\ Len(s) = CONTAINER_ID_LEN
  /\ \A i \in 1..Len(s) : s[i] \in ascii_hexdigit \ {"A", "B", "C", "D", "E", "F"}

is_container_id(s) ==
  /\ Len(s) = CONTAINER_ID_LEN
  /\ \A i \in 1..Len(s) : s[i] \in ascii_hexdigit

parse_container_id_from_cgroup_line(line) ==
  LET path == splitn_3_nth_2(line)
      last_segment == rsplit_next(path.s, "/")
      inner == trim_end_matches(last_segment, dot_scope)
      hex_id == rsplit_next(inner, "-")
  IN  IF ~path.some THEN NoStr
      ELSE IF /\ ~str_contains(path.s, kubepods)
              /\ ~str_contains(path.s, docker)
              /\ ~str_contains(path.s, containerd) THEN NoStr
      ELSE IF ends_with(last_segment, dot_scope) /\ is_container_id(hex_id)
           THEN SomeStr(SubSeq(hex_id, 1, SHORT_ID_LEN))
      ELSE IF is_container_id(last_segment)
           THEN SomeStr(SubSeq(last_segment, 1, SHORT_ID_LEN))
      ELSE NoStr

\* the lines: a header of two fields, one or none, a directory, a last segment
HexId(n, digits) == [i \in 1..n |-> digits[((i - 1) % Len(digits)) + 1]]
LowerHex == <<"a", "1", "b", "2", "c", "3", "d", "4", "e", "5", "f", "6", "0", "7", "8", "9">>
UpperHex == <<"A", "1", "B", "2", "C", "3", "D", "4", "E", "5", "F", "6", "0", "7", "8", "9">>
NotHex == <<"a", "1", "b", "2", "c", "3", "g", "4", "e", "5", "f", "6", "0", "7", "8", "9">>
CgroupHeaders == {<<"0", ":", ":">>, <<"1", "2", ":", "m", "e", "m", "o", "r", "y", ":">>, <<"0", ":">>, <<>>}
CgroupDirs == {<<>>, <<"/", "k", "u", "b", "e", "p", "o", "d", "s", "/", "b", "e", "s", "t", "e", "f", "f", "o", "r", "t", "/", "p", "o", "d", "x", "y", "z", "/">>, <<"/", "d", "o", "c", "k", "e", "r", "/">>, <<"/", "s", "y", "s", "t", "e", "m", ".", "s", "l", "i", "c", "e", "/">>, <<"/", "s", "y", "s", "t", "e", "m", ".", "s", "l", "i", "c", "e", "/", "c", "o", "n", "t", "a", "i", "n", "e", "r", "d", ".", "s", "e", "r", "v", "i", "c", "e", "/", "a", ":", "b", "/">>, <<"/", "u", "s", "e", "r", ".", "s", "l", "i", "c", "e", "/">>}
CgroupLastSegments ==
  LET id == HexId(CONTAINER_ID_LEN, LowerHex)
  IN  {id, HexId(CONTAINER_ID_LEN, UpperHex), HexId(CONTAINER_ID_LEN, NotHex),
       HexId(CONTAINER_ID_LEN - 1, LowerHex), HexId(CONTAINER_ID_LEN + 1, LowerHex),
       <<>>,
       docker \o <<"-">> \o id \o dot_scope,
       <<"c", "r", "i", "-", "c", "o", "n", "t", "a", "i", "n", "e", "r", "d", "-">> \o id \o dot_scope,
       docker \o <<"-">> \o id,
       docker \o <<"-">> \o HexId(CONTAINER_ID_LEN - 1, LowerHex) \o dot_scope,
       docker \o <<"-">> \o HexId(CONTAINER_ID_LEN, NotHex) \o dot_scope,
       id \o <<"-">> \o docker \o dot_scope,
       id \o dot_scope,
       docker \o <<"-">> \o id \o dot_scope \o dot_scope,
       id \o <<".", "s", "e", "r", "v", "i", "c", "e">>}
CgroupLines ==
  {h \o d \o seg : h \in CgroupHeaders, d \in CgroupDirs, seg \in CgroupLastSegments}

NotRead == [done |-> FALSE, id |-> NoStr]

CgroupInit(lines) ==
  /\ cgLine \in lines
  /\ cgResult = NotRead

\* extract_container_id applies the parser to a line of the cgroup file
ParseCgroupLine ==
  /\ ~cgResult.done
  /\ cgResult' = [done |-> TRUE, id |-> parse_container_id_from_cgroup_line(cgLine)]
  /\ UNCHANGED <<notCgroupVars, cgLine>>

(***************************************************************************)
(* llm/http/protocol.rs: load_provider_registry, CACHED_PROVIDERS,         *)
(* PROVIDER_REGISTRY                                                       *)
(***************************************************************************)
\* a registry is the list of its providers' names; a document is a text that
\* serde parses into a registry or rejects
BadDocument == [ok |-> FALSE, providers |-> <<>>]
Document(providers) == [ok |-> TRUE, providers |-> providers]
EmptyString == [ok |-> FALSE, providers |-> <<>>, empty |-> TRUE]

\* std::env::var(..): set to a text, or not set
Unset == [set |-> FALSE, text |-> BadDocument]
SetTo(text) == [set |-> TRUE, text |-> text]
\* std::fs::read_to_string(path): the content, or an error
Unreadable == [readable |-> FALSE, content |-> BadDocument]
Content(text) == [readable |-> TRUE, content |-> text]

\* serde_yml::from_str and ProviderRegistry::from_json
from_str(text) == IF text.ok THEN [ok |-> TRUE, reg |-> text.providers]
                  ELSE [ok |-> FALSE, reg |-> <<>>]

DefaultRegistry == [i \in 1..Len(with_defaults) |-> with_defaults[i].name]

\* load_provider_registry that gives up on the inline JSON once the file
\* variable is set
load_provider_registry_file_or_defaults(env) ==
  IF env.file_var.set
  THEN IF env.file.readable /\ from_str(env.file.content).ok
       THEN from_str(env.file.content).reg
       ELSE DefaultRegistry
  ELSE IF env.inline.set /\ env.inline.text # EmptyString /\ from_str(env.inline.text).ok
       THEN from_str(env.inline.text).reg
       ELSE DefaultRegistry

load_provider_registry(env) ==
  IF env.file_var.set /\ env.file.readable /\ from_str(env.file.content).ok
  THEN from_str(env.file.content).reg
  ELSE IF env.inline.set /\ env.inline.text # EmptyString /\ from_str(env.inline.text).ok
  THEN from_str(env.inline.text).reg
  ELSE DefaultRegistry

Lazies == {"CACHED_PROVIDERS", "PROVIDER_REGISTRY"}
ConfigFiles ==
  {Unreadable, Content(BadDocument), Content(Document(<<"file-a">>)), Content(Document(<<>>))}
InlineConfigs ==
  {Unset, SetTo(EmptyString), SetTo(BadDocument), SetTo(Document(<<"inline-a", "inline-b">>))}
RegistryEnvs ==
  {[file_var |-> v, file |-> f, inline |-> i] :
     v \in {Unset, SetTo(BadDocument)}, f \in ConfigFiles, i \in InlineConfigs}

\* envs: the environments the process may start in
RegistryInit(envs) ==
  /\ regEnv \in envs
  /\ regLazy = [k \in Lazies |-> [done |-> FALSE, registry |-> <<>>, env |-> regEnv]]

\* the first use of a static runs its initialiser; env records the
\* environment the load saw
ForceLazy(k) ==
  /\ ~regLazy[k].done
  /\ regLazy' = [regLazy EXCEPT ![k] =
       [done |-> TRUE, registry |-> load_provider_registry(regEnv), env |-> regEnv]]
  /\ UNCHANGED <<notRegistryVars, regEnv>>

\* the configuration file is rewritten, removed or created while the process
\* runs
ChangeFile(f) ==
  /\ regEnv.file_var.set
  /\ f # regEnv.file
  /\ regEnv' = [regEnv EXCEPT !.file = f]
  /\ UNCHANGED <<notRegistryVars, regLazy>>

\* the variables of the parsers, the resolver and the configuration in a
\* behaviour that does not use them
LibIdle ==
  /\ ResolverInit({})
  /\ FindInit({<<>>}, {<<>>})
  /\ UsageInit({Null})
  /\ CgroupInit({<<>>})
  /\ RegistryInit({[file_var |-> Unset, file |-> Unreadable, inline |-> Unset]})
  /\ ThresholdInit({FALSE}, {None})
  /\ JsonInit({[pfx |-> <<>>, json1 |-> <<123, 125>>, mid |-> <<>>,
             json2 |-> <<123, 125>>, sfx |-> <<>>]})

\* the variables of a behaviour in which only the agent's user side runs
AuxIdle ==
  /\ KernIdle /\ HandlerIdle /\ StartIdle /\ HashInit({<<>>}) /\ ChunkInit({<<>>})
  /\ LibIdle

(***************************************************************************)
(* The engine specification                                                *)
(***************************************************************************)
ControllerStep ==
  \/ AttachProbes
  \/ SetupExecWatch
  \/ Seed
  \/ SelectCtrlC
  \/ SelectNotified
  \/ BatchWait
  \/ Drain
  \/ AttachNew
  \/ CheckShutdown
  \/ ShutdownMetrics
  \/ AwaitCtrlC
  \/ RequestShutdown

WorkerStep(w) == WorkerCheck(w) \/ WorkerNext(w) \/ WorkerIdle(w)

FaStep == FaCheck \/ FaNext

EnvStep ==
  \/ \E p \in Pids, image \in ExecImages : ProcExec(p, image)
  \/ Signal
  \/ SslFrame
  \/ FaFrame

\* Discovery: the controller with LLM probing enabled, from startup through
\* the discovery loop, the exec watch and the host.  Signals and the
\* SSL_EVENTS / FILE_ACCESS_EVENTS drainers write no variable that discovery
\* reads; they are part of ShutdownSpec.
Init == EngineInit({TRUE}, {FALSE}, MaxExecs) /\ ProcIdle /\ AuxIdle /\ SslIdle(0)

Next ==
  \/ AttachProbes
  \/ SetupExecWatch
  \/ Seed
  \/ SelectNotified
  \/ BatchWait
  \/ Drain
  \/ AttachNew
  \/ CheckShutdown
  \/ WorkerStep("exec")
  \/ \E p \in Pids, image \in ExecImages : ProcExec(p, image)

Spec == Init /\ [][Next]_vars

\* Shutdown: the controller with every drainer thread and the ring buffers
ShutdownInit ==
  EngineInit(BOOLEAN, BOOLEAN, MaxShutdownExecs) /\ ProcIdle /\ AuxIdle /\ SslIdle(0)

ShutdownNext ==
  \/ ControllerStep
  \/ \E w \in RingWorkers : WorkerStep(w)
  \/ FaStep
  \/ EnvStep

ShutdownSpec == ShutdownInit /\ [][ShutdownNext]_vars

\* the tokio runtime and the OS schedule the controller task and every
\* drainer thread fairly; the host and the user owe nothing
FairShutdownSpec ==
  /\ ShutdownSpec
  /\ WF_vars(ControllerStep)
  /\ \A w \in RingWorkers : WF_vars(WorkerStep(w))
  /\ WF_vars(FaStep)

\* Exec storm: the discovery loop from the moment pid 1 has exec'd so often
\* during one batch wait that the queue holds n entries, n at or just below
\* MAX_EXEC_QUEUE_SIZE.  No library was mapped before the storm, the exec
\* drainer has emptied the ring, and the Notify holds the permit stored by
\* the handler's last notify_one.
StormInit ==
  /\ EngineInit({TRUE}, {FALSE}, MaxStormExecs)
  /\ ldconfig = {}
  /\ ProcIdle
  /\ AuxIdle
  /\ SslIdle(0)

StormFills == {MAX_EXEC_QUEUE_SIZE - 1, MAX_EXEC_QUEUE_SIZE}

Storm ==
  /\ pc = "start"
  /\ \E n \in StormFills, image \in ExecImages :
       /\ queue' = [i \in 1..n |-> 1]
       /\ procMaps' = [procMaps EXCEPT ![1] = image]
  /\ pc' = "batch_wait"
  /\ permit' = TRUE
  /\ execWatch' = TRUE
  /\ worker' = [worker EXCEPT !["exec"] = "drain"]
  /\ accepted' = queue'
  /\ UNCHANGED <<auxVars, streamVars, dropped, passed, cfgVars, attachVars, sigVars, ringVars,
                 execsLeft, shutdown, metricsShutdownCalls, execRing, batch>>

StormNext ==
  \/ Storm
  \/ SelectNotified
  \/ BatchWait
  \/ Drain
  \/ AttachNew
  \/ CheckShutdown
  \/ WorkerStep("exec")
  \/ \E p \in Pids, image \in ExecImages : ProcExec(p, image)

StormSpec == StormInit /\ [][StormNext]_vars

\* the tokio runtime schedules the controller task and the OS schedules the
\* exec drainer thread; the host owes no further exec
FairStormSpec ==
  /\ StormSpec
  /\ WF_vars(SelectNotified \/ BatchWait \/ Drain \/ AttachNew \/ CheckShutdown)
  /\ WF_vars(WorkerStep("exec"))

\* Exec watch: the discovery of Spec on a host whose linker cache lists no
\* TLS library, together with Ctrl-C and the way out of the loop
WatchInit == Init /\ ldconfig = {}

\* the processes that exec map no TLS library, or libssl
WatchImages == {{}, {LIBSSL}}

WatchNext ==
  \/ AttachProbes
  \/ SetupExecWatch
  \/ Seed
  \/ SelectCtrlC
  \/ SelectNotified
  \/ BatchWait
  \/ Drain
  \/ AttachNew
  \/ CheckShutdown
  \/ ShutdownMetrics
  \/ RequestShutdown
  \/ WorkerStep("exec")
  \/ \E p \in Pids, image \in WatchImages : ProcExec(p, image)
  \/ Signal

WatchSpec == WatchInit /\ [][WatchNext]_vars

\* the tokio runtime schedules the controller task and the OS schedules the
\* exec drainer thread; the host and the user owe nothing
FairWatchSpec ==
  /\ WatchSpec
  /\ WF_vars(ControllerStep)
  /\ WF_vars(WorkerStep("exec"))

(***************************************************************************)
(* The stream specifications                                               *)
(***************************************************************************)
\* the engine variables of a behaviour that only handles TLS events
EngineIdle == EngineInit({TRUE}, {FALSE}, 0) /\ ldconfig = {}

\* one StreamProcessor and the calls of handle_event on it
ProcInit == EngineIdle /\ ProcIdle /\ AuxIdle /\ SslIdle(0)

ProcNext == \E e \in ProcInputs : HandleEvent(e.direction, e.data)

ProcSpec == ProcInit /\ [][ProcNext]_vars

\* the StreamMap, the frames SSL_EVENTS delivers for several threads, and
\* the sweeper
SslInit == EngineIdle /\ ProcIdle /\ AuxIdle /\ SslIdle(MaxSslEvents)

SslNext ==
  \/ \E k \in Keys, payload \in Payloads : SslEvent(k[1], k[2], payload)
  \/ Idle
  \/ Sweep

SslSpec == SslInit /\ [][SslNext]_vars

\* The sweeper at second granularity: frames arrive and the sweeper runs
\* just before, at and just after the retention time.
SweepInit == EngineIdle /\ ProcIdle /\ AuxIdle /\ SslIdle(MaxSweepEvents)

SweepNext ==
  \/ \E k \in Keys, payload \in {p \in Payloads : p.kind = "noise"} :
       SslEvent(k[1], k[2], payload)
  \/ Idle
  \/ \E d \in {1, CONNECTION_RETENTION_SECS - 1} : Tick(d)
  \/ Sweep

SweepSpec == SweepInit /\ [][SweepNext]_vars

\* The kernel probes alone: the threads of the host enter and leave the
\* probed functions in any interleaving.
KernInit == EngineIdle /\ ProcIdle /\ AuxIdle /\ SslIdle(0)

KernNext ==
  \E t \in KThreads :
    \/ \E op_type \in NcclOps : NcclEntry(t, op_type)
    \/ \E ret_code \in NcclRets, reserved \in BOOLEAN : NcclExit(t, ret_code, reserved)
    \/ \E filename \in OpenatPaths, read \in BOOLEAN : GpuOpenEnter(t, filename, read)
    \/ \E fd \in OpenatRets, read \in BOOLEAN, reserved \in BOOLEAN :
         GpuOpenExit(t, fd, read, reserved)
    \/ \E op_type \in {VFS_OP_READ, VFS_OP_WRITE}, arg \in BOOLEAN :
         VfsEntry(t, op_type, arg, KFile("regular", TRUE, 33188), 0)
    \/ \E ret \in VfsRets, reserved \in BOOLEAN :
         VfsReadExit(t, ret, DEFAULT_THRESHOLD_NS, reserved)
    \/ \E ret \in VfsRets, reserved \in BOOLEAN :
         VfsWriteExit(t, ret, DEFAULT_THRESHOLD_NS, reserved)

KernSpec == KernInit /\ [][KernNext]_vars

\* The vfs_read / vfs_write probes alone. VFS_THRESHOLD_NS is as the loader
\* created it, or as VfsLatencyProbe::set_threshold wrote it (5 ms).
VfsThresholdMaps == {NoEntries, set_threshold(NoEntries, 5000000)}
\* return values: an error, nothing, a short count, 1 MiB - 1, 1 MiB
VfsSpecRets == {-1, 0, 512, 1048575, 1048576}
\* how long the calls take: around 5 ms and around 10 ms
VfsTimes == {4999999, 5000000, 9999999, 10000000}
\* the threads that call vfs_read and vfs_write: both threads of process 1
VfsThreads == {t \in KThreads : t.tgid = 1}

VfsSpecInit ==
  /\ EngineIdle /\ ProcIdle /\ SslIdle(0)
  /\ KernIdle /\ HandlerIdle /\ StartIdle /\ HashInit({<<>>}) /\ ChunkInit({<<>>})
  /\ ResolverInit({})
  /\ FindInit({<<>>}, {<<>>})
  /\ UsageInit({Null})
  /\ CgroupInit({<<>>})
  /\ RegistryInit({[file_var |-> Unset, file |-> Unreadable, inline |-> Unset]})
  /\ JsonInit({[pfx |-> <<>>, json1 |-> <<123, 125>>, mid |-> <<>>,
             json2 |-> <<123, 125>>, sfx |-> <<>>]})
  /\ builtin \in [ThresholdProbes -> [on : {FALSE}, threshold_ms : {None}]]
  /\ \E map \in VfsThresholdMaps :
       thresholdMap = [p \in ThresholdProbes |->
                         IF p = "vfs_latency" THEN map ELSE NoEntries]
  /\ attached = {}
  /\ attachPc = "vfs_latency"

VfsNext ==
  \E t \in VfsThreads :
    \/ /\ kcalls < MaxVfsCalls
       /\ \E op_type \in {VFS_OP_READ, VFS_OP_WRITE}, file_ptr \in KFiles,
             now \in {7} :
            VfsEntry(t, op_type, TRUE, file_ptr, now)
    \/ \E ret \in VfsSpecRets, took \in VfsTimes, reserved \in BOOLEAN :
         VfsReadExit(t, ret, took, reserved)
    \/ \E ret \in VfsSpecRets, took \in VfsTimes, reserved \in BOOLEAN :
         VfsWriteExit(t, ret, took, reserved)

VfsSpec == VfsSpecInit /\ [][VfsNext]_vars

\* The SSL uprobes alone: the threads of process 1 call the probed
\* functions, the buffers at two addresses, the byte count of the _ex
\* variants at a third.
SslBufs == {4096, 8192}
SslLenPtrs == {12288}
\* return values: an error, nothing, success of an _ex variant, five bytes
SslRets == {-1, 0, 1, 5}

SessionSpecInit == EngineIdle /\ ProcIdle /\ AuxIdle /\ SslIdle(0)

SessionNext ==
  \E t \in VfsThreads :
    \/ \E fn \in SslFns, buf \in SslBufs, len_ptr \in SslLenPtrs :
         SslEnter(t, fn, buf, len_ptr)
    \/ \E ret \in SslRets, reserved \in BOOLEAN, len_read \in BOOLEAN,
          buf_read \in BOOLEAN :
         SslExit(t, ret, 5, reserved, len_read, buf_read)

SessionSpec == SessionSpecInit /\ [][SessionNext]_vars

\* Startup: HoneyBeeEngine::new, then run on the engine it returned.
StartupInit ==
  /\ EngineInit(BOOLEAN, BOOLEAN, MaxShutdownExecs)
  /\ ProcIdle
  /\ SslIdle(0)
  /\ KernIdle
  /\ HandlerIdle
  /\ HashInit({<<>>})
  /\ ChunkInit({<<>>})
  /\ LibIdle
  /\ newPc = "bump"
  /\ setrlimitRet = 0

StartupNext ==
  \/ BumpMemlockRlimit
  \/ LoadBytecode
  \/ newPc = "ok" /\ ShutdownNext

StartupSpec == StartupInit /\ [][StartupNext]_vars

\* One ring buffer and its drainer thread; the shutdown flag stays clear.
RingInit == EngineIdle /\ ProcIdle /\ AuxIdle /\ SslIdle(0)

RingNext ==
  \/ \E len \in FrameLens : RbSubmit(len)
  \/ RbCheck
  \/ RbNext
  \/ RbEndRound
  \/ RbWake

RingSpec == RingInit /\ [][RingNext]_vars

\* The file access probe: one watched path is hashed into WATCHED_PATHS,
\* then a process opens that path or the path with one more byte.
HashSpecInit ==
  /\ EngineIdle
  /\ ProcIdle
  /\ SslIdle(0)
  /\ KernIdle
  /\ HandlerIdle
  /\ StartIdle
  /\ HashInit(HashInputs)
  /\ ChunkInit({<<>>})
  /\ LibIdle

HashNext ==
  \/ PopulateWatchedPaths
  \/ \E filename \in {hPath, Append(hPath, 97)} : SysEnterOpenat(filename)

HashSpec == HashSpecInit /\ [][HashNext]_vars

\* The chunked decoder applied twice to a correct encoding of a payload.
ChunkSpecInit ==
  /\ EngineIdle
  /\ ProcIdle
  /\ SslIdle(0)
  /\ KernIdle
  /\ HandlerIdle
  /\ StartIdle
  /\ HashInit({<<>>})
  /\ ChunkInit(ChunkPayloads)
  /\ LibIdle

ChunkNext == DecodeOnce \/ DecodeAgain

ChunkSpec == ChunkSpecInit /\ [][ChunkNext]_vars

\* the variables of every other specification while a library function runs
CoreIdle ==
  /\ EngineIdle /\ ProcIdle /\ SslIdle(0)
  /\ KernIdle /\ HandlerIdle /\ StartIdle /\ HashInit({<<>>}) /\ ChunkInit({<<>>})

JsonIdle ==
  JsonInit({[pfx |-> <<>>, json1 |-> <<123, 125>>, mid |-> <<>>,
             json2 |-> <<123, 125>>, sfx |-> <<>>]})

\* The JSON object extractor applied to pfx json1 mid json2 sfx.
JsonSpecInit ==
  /\ CoreIdle /\ JsonInit(JsonInputs) /\ ResolverInit({}) /\ ThresholdInit({FALSE}, {None})
  /\ FindInit({<<>>}, {<<>>})
  /\ UsageInit({Null})
  /\ CgroupInit({<<>>})
  /\ RegistryInit({[file_var |-> Unset, file |-> Unreadable, inline |-> Unset]})

JsonNext == ExtractAll

JsonSpec == JsonSpecInit /\ [][JsonNext]_vars

\* The pod resolver shared by the handler threads, the pod watcher and the
\* cache cleanup task.
ResolverSpecInit ==
  /\ CoreIdle
  /\ JsonIdle
  /\ ResolverInit({p.pid : p \in RProcs})
  /\ ThresholdInit({FALSE}, {None})
  /\ FindInit({<<>>}, {<<>>})
  /\ UsageInit({Null})
  /\ CgroupInit({<<>>})
  /\ RegistryInit({[file_var |-> Unset, file |-> Unreadable, inline |-> Unset]})

ResolverNext ==
  \/ \E t \in RThreads :
       \/ \E ev \in RProcs : ResolveLookup(t, ev)
       \/ ResolveInsert(t)
       \/ ResolveReturn(t)
  \/ \E pod \in RPods : ApplyPod(pod) \/ DeletePodStore(pod) \/ DeletePodCache(pod)
  \/ CacheCleanup
  \/ \E pid \in alive : ProcExit(pid)

ResolverSpec == ResolverSpecInit /\ [][ResolverNext]_vars

\* The same resolver at the grain of its locks, under both lock policies.
LockSpecInit ==
  /\ CoreIdle
  /\ JsonIdle
  /\ ResolverInitLocks({p.pid : p \in RProcs}, BOOLEAN)
  /\ ThresholdInit({FALSE}, {None})
  /\ FindInit({<<>>}, {<<>>})
  /\ UsageInit({Null})
  /\ CgroupInit({<<>>})
  /\ RegistryInit({[file_var |-> Unset, file |-> Unreadable, inline |-> Unset]})

LockNext ==
  \/ \E t \in RThreads :
       \/ \E ev \in RProcs : LockResolve(t, ev)
       \/ LockCacheRead(t)
       \/ LockFastStoreRead(t)
       \/ LockCacheInsert(t)
       \/ LockSlowStoreRead(t)
  \/ \E pod \in RPods, is_delete \in BOOLEAN : LockPodEvent(pod, is_delete)
  \/ LockStoreWrite
  \/ LockDeleteCacheWrite
  \/ LockCleanupTick
  \/ LockCleanupStoreRead
  \/ LockCleanupCacheWrite

LockSpec == LockSpecInit /\ [][LockNext]_vars

\* The pods of a node over time: pod-a, pod-a after its container was
\* restarted, and pod-b. An Apply event carries the pod as it is now, a Delete
\* event the pod as it was last reported.
NodePods == RPods \cup {[name |-> "pod-a", container_ids |-> {"c2"}],
                        [name |-> "pod-b", container_ids |-> {"c3"}]}

PodSpecInit ==
  /\ CoreIdle
  /\ JsonIdle
  /\ ResolverInitLocks({p.pid : p \in RProcs}, {FALSE})
  /\ ThresholdInit({FALSE}, {None})
  /\ FindInit({<<>>}, {<<>>})
  /\ UsageInit({Null})
  /\ CgroupInit({<<>>})
  /\ RegistryInit({[file_var |-> Unset, file |-> Unreadable, inline |-> Unset]})

PodNext ==
  \/ \E pod \in NodePods : LockPodEvent(pod, FALSE)
  \/ \E pod \in NodePods :
       /\ pod.name \in DOMAIN node
       /\ node[pod.name] = pod.container_ids
       /\ LockPodEvent(pod, TRUE)
  \/ LockStoreWrite
  \/ LockDeleteCacheWrite
  \/ \E t \in RThreads :
       \/ \E ev \in RProcs : LockResolve(t, ev)
       \/ LockCacheRead(t)
       \/ LockFastStoreRead(t)
       \/ LockCacheInsert(t)
       \/ LockSlowStoreRead(t)

PodSpec == PodSpecInit /\ [][PodNext]_vars

\* attach_probes on every setting of the probes with a latency threshold.
ThresholdSpecInit ==
  /\ CoreIdle
  /\ JsonIdle
  /\ ResolverInit({})
  /\ ThresholdInit(BOOLEAN, ThresholdsMs)
  /\ FindInit({<<>>}, {<<>>})
  /\ UsageInit({Null})
  /\ CgroupInit({<<>>})
  /\ RegistryInit({[file_var |-> Unset, file |-> Unreadable, inline |-> Unset]})

ThresholdNext ==
  \/ \E outcome \in {"ok", "no_map", "kprobe_failed"} : AttachVfsLatency(outcome)
  \/ \E outcome \in {"ok", "failed"} : AttachRunqueue(outcome)
  \/ \E outcome \in {"ok", "failed"} : AttachOffcpu(outcome)

ThresholdSpec == ThresholdSpecInit /\ [][ThresholdNext]_vars

\* find_provider on every registry of at most MaxProviders providers.
FindSpecInit ==
  /\ CoreIdle
  /\ JsonIdle
  /\ ResolverInit({})
  /\ ThresholdInit({FALSE}, {None})
  /\ FindInit(Registries, FindStrings)
  /\ UsageInit({Null})
  /\ CgroupInit({<<>>})
  /\ RegistryInit({[file_var |-> Unset, file |-> Unreadable, inline |-> Unset]})

FindNext == FindProvider

FindSpec == FindSpecInit /\ [][FindNext]_vars

\* parse_response_json_value on every response value.
UsageSpecInit ==
  /\ CoreIdle
  /\ JsonIdle
  /\ ResolverInit({})
  /\ ThresholdInit({FALSE}, {None})
  /\ FindInit({<<>>}, {<<>>})
  /\ UsageInit(ResponseValues)
  /\ CgroupInit({<<>>})
  /\ RegistryInit({[file_var |-> Unset, file |-> Unreadable, inline |-> Unset]})

UsageNext == ParseResponseValue

UsageSpec == UsageSpecInit /\ [][UsageNext]_vars

\* parse_container_id_from_cgroup_line on every line.
CgroupSpecInit ==
  /\ CoreIdle
  /\ JsonIdle
  /\ ResolverInit({})
  /\ ThresholdInit({FALSE}, {None})
  /\ FindInit({<<>>}, {<<>>})
  /\ UsageInit({Null})
  /\ CgroupInit(CgroupLines)
  /\ RegistryInit({[file_var |-> Unset, file |-> Unreadable, inline |-> Unset]})

CgroupNext == ParseCgroupLine

CgroupSpec == CgroupSpecInit /\ [][CgroupNext]_vars

\* The two statics are loaded, in any order, while the file may change.
RegistrySpecInit ==
  /\ CoreIdle
  /\ JsonIdle
  /\ ResolverInit({})
  /\ ThresholdInit({FALSE}, {None})
  /\ FindInit({<<>>}, {<<>>})
  /\ UsageInit({Null})
  /\ CgroupInit({<<>>})
  /\ RegistryInit(RegistryEnvs)

RegistryNext ==
  \/ \E k \in Lazies : ForceLazy(k)
  \/ \E f \in ConfigFiles : ChangeFile(f)

RegistrySpec == RegistrySpecInit /\ [][RegistryNext]_vars

(***************************************************************************)
(* Claims about discovery and shutdown                                     *)
(***************************************************************************)
\* C1: over every sequence of exec batches and every outcome of the attach
\* calls, each uprobe (library path, program, symbol) is attached at most
\* once.
C1_AttachAtMostOnce ==
  \A p \in Paths : \A s \in Steps : links[p][s] <= 1

\* the last discovery step started from an empty known set and its pids map
\* exactly one libssl path p
OneNewLibssl(p) ==
  /\ lastAttach.known0 = {}
  /\ lastAttach.targets = {p}
  /\ p.file = LIBSSL

\* C2: from an empty known set, a batch whose pid maps one libssl path makes
\* the discovery step issue exactly the six calls entry+exit of SSL_read,
\* SSL_write, SSL_do_handshake on that path, and no others.
C2_ExactlySixCalls ==
  \A p \in Paths :
    OneNewLibssl(p) =>
      /\ DOMAIN lastAttach.called = {p}
      /\ lastAttach.called[p] = MandatorySteps

\* C2 as amended: the step calls attach on that path only, in program order,
\* stopping at the first required call that fails (the path then stays
\* unknown); when the six required calls succeed it also issues the four
\* optional calls for SSL_write_ex and SSL_read_ex, ten in all, each once,
\* and the path becomes known.
C2_SixRequiredThenFourOptional ==
  \A p \in Paths :
    OneNewLibssl(p) =>
      /\ DOMAIN lastAttach.called = {p}
      /\ \/ /\ lastAttach.called[p] = Steps
            /\ p \in known
            /\ \A s \in MandatorySteps : links[p][s] >= 1
         \/ /\ \E m \in MandatorySteps : lastAttach.called[p] = 1..m
            /\ p \notin known

\* C2 witness: such a step has issued all ten calls
C2_Witness ==
  \E p \in Paths :
    /\ OneNewLibssl(p)
    /\ lastAttach.called[p] = Steps
    /\ \A s \in Steps : calls[p][s] = 1

\* C3: every libssl path in the known set has its required SSL uprobes
\* attached; a path whose attach failed or was never tried is not in the set.
C3_KnownImpliesAttached ==
  \A p \in known :
    p.file = LIBSSL => \A s \in MandatorySteps : links[p][s] >= 1

\* C4: an interrupt delivered after startup, at any point of the controller
\* loop, leads to the loop exiting and the shutdown flag being set.
C4_SignalLeadsToShutdown ==
  sigDelivered ~> (pc = "done" /\ shutdown)

\* C5: once the shutdown flag is set every drainer thread that was started
\* terminates.
C5_DrainersTerminate ==
  shutdown ~> (\A w \in Workers : worker[w] \in {"none", "exited"})

\* C6: when run has returned after a signal, shutdown_metrics has been called
\* exactly once, with LLM probing enabled or disabled.
C6_MetricsShutdownOnce ==
  pc = "done" => metricsShutdownCalls = 1

\* the exec drainer hands a frame to the handler while the queue is full
HandlerOnFullQueue ==
  /\ Len(queue) = MAX_EXEC_QUEUE_SIZE
  /\ execRing # <<>>
  /\ execRing' = Tail(execRing)

\* C12: the exec pid queue never holds more than 1024 entries; an exec event
\* that arrives while it holds 1024 is discarded without changing the
\* entries already queued, and the notifier is still signalled.
C12_ExecQueueCapped ==
  /\ [](Len(queue) <= MAX_EXEC_QUEUE_SIZE)
  /\ [][HandlerOnFullQueue => (queue' = queue /\ permit')]_vars

\* C12 witness: an exec event has been discarded on a full queue, and the
\* Notify holds a permit
C12_Witness ==
  /\ dropped # {}
  /\ Len(queue) = MAX_EXEC_QUEUE_SIZE
  /\ execRing = <<>>
  /\ permit

\* the exec event of process p was discarded and p maps a TLS library
DroppedWithLibssl(p) ==
  /\ p \in dropped
  /\ LIBSSL \in procMaps[p]

\* the library p maps has been examined: attach was called on its path, or
\* the path is in the known set; or p no longer maps it
Examined(p) ==
  LET path == [root |-> p, file |-> LIBSSL]
  IN  \/ calls[path][1] >= 1
      \/ path \in known
      \/ LIBSSL \notin procMaps[p]

\* C13: a process whose exec pid was dropped because the exec queue was full
\* is eventually examined by a later full discovery scan, so that a TLS
\* library it maps is eventually instrumented.
C13_DroppedEventuallyExamined ==
  \A p \in Pids : DroppedWithLibssl(p) ~> Examined(p)

\* C17: during startup a failure to attach a statically configured probe,
\* the LLM probe included, is logged and skipped: attach_probes never makes
\* run return an error.
C17_AttachFailureSkipped == [][pc = "start" => pc' # "failed"]_vars

\* C18: if raising the locked-memory rlimit fails, engine construction
\* returns an error instead of going on to load the bytecode.
C18_RlimitFailureFailsStartup == setrlimitRet # 0 => newPc = "err"

(***************************************************************************)
(* Claims about the stream processor                                       *)
(***************************************************************************)
\* the write w alone makes a new processor detect an LLM request
DetectedRequest(w) ==
  /\ w.direction = "Write"
  /\ handle_event(new, w.direction, w.data, 1).p.state = "ProcessingRequest"

\* the read r alone is a complete response with usage for the parser that
\* the write w selected
CompleteResponse(w, r) ==
  /\ r.direction = "Read"
  /\ parse_response(handle_event(new, w.direction, w.data, 1).p.parser, <<r.data>>)

\* a stream that consists of a detected request followed by one read with a
\* complete usage-bearing response
RequestThenResponse ==
  /\ Len(spHist) = 2
  /\ DetectedRequest(spHist[1])
  /\ CompleteResponse(spHist[1], spHist[2])

\* C7: when a write carrying a detected LLM request is followed by one read
\* carrying a complete usage-bearing response, handling that read logs
\* exactly one summary record and leaves the stream Finished.
C7_ResponseReadEmitsSummary ==
  RequestThenResponse => (spSummaries = 1 /\ sp.state = "Finished")

\* C8: at most one summary record is logged between two consecutive resets;
\* once it is logged the stream is Finished, so no event logs another one
\* until a write has reset the stream.
C8_OneSummaryPerReset ==
  /\ spSinceReset <= 1
  /\ spSinceReset = 1 => sp.state = "Finished"

\* C8 witness: a summary has been logged, the stream is Finished, and a
\* further read has been handled without logging a second one
C8_Witness ==
  /\ spSinceReset = 1
  /\ spPrev.state = "Finished"
  /\ spHist[Len(spHist)].direction = "Read"

\* the last call of handle_event carried a payload that does not fit in the
\* buffer of its direction as it stood before the call
LastWouldExceed ==
  /\ spHist # <<>>
  /\ LET e == spHist[Len(spHist)]
     IN  \/ /\ e.direction = "Write"
            /\ ByteLen(spPrev.write_buf) + e.data.len > MAX_REQUEST_BUFFER_SIZE
         \/ /\ e.direction = "Read"
            /\ ByteLen(spPrev.read_buf) + e.data.len > MAX_RESPONSE_BUFFER_SIZE

WithinCaps ==
  /\ ByteLen(sp.write_buf) <= MAX_REQUEST_BUFFER_SIZE
  /\ ByteLen(sp.read_buf) <= MAX_RESPONSE_BUFFER_SIZE

IsReset ==
  /\ sp.state = "Detecting"
  /\ sp.write_buf = <<>>
  /\ sp.read_buf = <<>>

\* C10: the write buffer never holds more than 8 MiB and the read buffer
\* never more than 16 MiB; an event whose payload would exceed the cap is
\* not appended and resets the stream (both buffers empty, Detecting).
C10_CapsAndResetOnOverflow ==
  /\ WithinCaps
  /\ LastWouldExceed => IsReset

\* C10 as amended: the caps hold in every state; an event handled while the
\* stream is not Finished whose payload would exceed the cap is not
\* appended and resets the stream.  In Finished a read is ignored, and a
\* write is measured against the buffer that the reset has just emptied.
C10_CapsAndResetUnlessFinished ==
  /\ WithinCaps
  /\ (LastWouldExceed /\ spPrev.state # "Finished") => IsReset
  /\ (LastWouldExceed /\ spPrev.state = "Finished") =>
       LET e == spHist[Len(spHist)]
       IN  IF e.direction = "Read"
           THEN /\ sp.state = "Finished"
                /\ sp.write_buf = spPrev.write_buf
                /\ sp.read_buf = spPrev.read_buf
           ELSE /\ sp.read_buf = <<>>
                /\ \/ IsReset /\ e.data.len > MAX_REQUEST_BUFFER_SIZE
                   \/ sp.write_buf = <<e.data>>

\* C10 witness: a stream that is not Finished and holds data has been reset
\* by a payload that did not fit
C10_Witness ==
  /\ LastWouldExceed
  /\ spPrev.state = "ProcessingRequest"
  /\ spPrev.write_buf # <<>>
  /\ IsReset

\* the last call of handle_event found the stream Finished
LastInFinished ==
  /\ spHist # <<>>
  /\ spPrev.state = "Finished"

\* C11: in Finished a read leaves the state and both buffers unchanged; a
\* write first clears both buffers and returns the stream to Detecting, so
\* that afterwards the write buffer holds exactly that write's bytes and
\* detection has run on those bytes alone.
C11_FinishedReadIgnoredWriteRestarts ==
  LastInFinished =>
    LET e == spHist[Len(spHist)]
        alone == [new EXCEPT !.write_buf = <<e.data>>]
    IN  /\ e.direction = "Read" =>
             /\ sp.state = "Finished"
             /\ sp.write_buf = spPrev.write_buf
             /\ sp.read_buf = spPrev.read_buf
        /\ e.direction = "Write" =>
             /\ sp.write_buf = <<e.data>>
             /\ sp.read_buf = <<>>
             /\ sp.state = DetectingStep(alone).state
             /\ sp.parser = DetectingStep(alone).parser

\* C11 witness: a Finished stream that held a request and a response has
\* handled a new write and detected the request in it
C11_Witness ==
  /\ LastInFinished
  /\ spPrev.write_buf # <<>>
  /\ spPrev.read_buf # <<>>
  /\ spHist[Len(spHist)].direction = "Write"
  /\ sp.state = "ProcessingRequest"

(***************************************************************************)
(* Claims about the stream map                                             *)
(***************************************************************************)
\* the entry of key k in a StreamMap, as a set of at most one processor,
\* reduced to its state and its two buffers
Entry(map, k) ==
  { [state |-> map[x].state, write_buf |-> map[x].write_buf,
     read_buf |-> map[x].read_buf] : x \in DOMAIN map \cap {k} }

\* the map after the handler has run on the frames h, starting empty
RECURSIVE Replay(_, _)
Replay(map, h) ==
  IF h = <<>> THEN map
  ELSE Replay(SSL_EVENTS_handler(map, Head(h), 0).map, Tail(h))

\* every stream equals the result of applying all the events of its key
AllOwnEvents ==
  /\ DOMAIN streams \subseteq Keys
  /\ \A k \in DOMAIN streams :
       Entry(streams, k) = Entry(Replay(EmptyMap, hist[k]), k)

\* every stream equals the result of applying the events of its key that
\* were handled since its entry was last removed
OwnEventsSinceCreated ==
  /\ DOMAIN streams \subseteq Keys
  /\ \A k \in Keys : Entry(streams, k) = Entry(Replay(EmptyMap, cur[k]), k)

\* a step that handles an event leaves the streams of the other keys alone
OtherStreamsUntouched ==
  \A k \in Keys :
    (sslEventsLeft' # sslEventsLeft /\ hist'[k] = hist[k]) =>
      Entry(streams', k) = Entry(streams, k)

\* C9: handling an event of stream (pid, tid) never changes the state or
\* the buffers of a stream with a different key, and after any interleaving
\* each stream equals the result of applying only its own events in order.
C9_StreamsIndependent ==
  []AllOwnEvents /\ [][OtherStreamsUntouched]_vars

\* C9 as amended: handling an event of stream (pid, tid) never changes the
\* state or the buffers of a stream with a different key; each stream equals
\* the result of applying, in order, only the events of its own key handled
\* since its entry was last created (the sweeper removes an entry that has
\* been idle for CONNECTION_RETENTION_SECS; the next event of that key then
\* starts from a new processor).
C9_StreamsIndependentSinceCreated ==
  []OwnEventsSinceCreated /\ [][OtherStreamsUntouched]_vars

\* C9 witness: the stream of one thread was removed while idle and has been
\* created again by a later event, next to the stream of another thread of
\* the same process
C9_Witness ==
  /\ <<1, 1>> \in DOMAIN streams
  /\ <<1, 2>> \in DOMAIN streams
  /\ cur[<<1, 1>>] # hist[<<1, 1>>]
  /\ streams[<<1, 1>>].write_buf # <<>>
  /\ streams[<<1, 2>>].write_buf # <<>>


(***************************************************************************)
(* Claims about the kernel pending maps, checked under KernSpec            *)
(***************************************************************************)
\* C14: for each pending map (NCCL pending ops, GPU pending opens, VFS start
\* entries), once the exit probe has run for a thread that had a pending
\* entry under its key, no entry is left under that key, whichever path the
\* exit probe took (reservation failed, kernel read failed, the call returned
\* an error, the event was filtered).
C14_ExitClearsPending ==
  (lastProbe.kind = "exit" /\ lastProbe.found) => ~lastProbe.left

\* C15: an entry or exit probe never reads, overwrites or consumes the
\* pending entry another thread inserted, and every GPU open event carries
\* the fd returned by the openat call that supplied its device path.
C15_ThreadsIsolated ==
  /\ lastProbe.found => lastProbe.owner = lastProbe.thread
  /\ \A e \in GPU_OPEN_EVENTS : e.pathCall = e.fdCall

(***************************************************************************)
(* Claims about spawn_ringbuf_handler, checked under RingSpec              *)
(***************************************************************************)
\* the frames of s that are at least as long as the declared event type
RECURSIVE LongEnough(_)
LongEnough(s) ==
  IF s = <<>> THEN <<>>
  ELSE IF Head(s).len >= size_of_T
       THEN <<Head(s).id>> \o LongEnough(Tail(s))
       ELSE LongEnough(Tail(s))

\* C16: the handler of a ring buffer is invoked with the frames one at a
\* time in production order; a frame shorter than the declared event type
\* is skipped without a handler call and without changing the order of the
\* other frames.
C16_HandledInProductionOrder ==
  /\ [](/\ \A i \in 1..Len(rbTaken) : rbTaken[i].id = i
        /\ \A i \in 1..Len(rbRing) : rbRing[i].id = Len(rbTaken) + i
        /\ rbHandled = LongEnough(rbTaken))
  /\ [][Len(rbHandled') <= Len(rbHandled) + 1]_vars

\* a short frame was skipped between two frames the handler received
C16_Witness ==
  /\ Len(rbTaken) = 3
  /\ rbTaken[2].len < size_of_T
  /\ rbHandled = <<1, 3>>

(***************************************************************************)
(* Claims about the watched-path hash, checked under HashSpec              *)
(***************************************************************************)
\* C19: for every watched path without a NUL byte, whatever its length, the
\* FNV-1a-64 value the user side wrote into WATCHED_PATHS equals the value
\* the kernel-side helper computes when that path is opened.
C19_HashesAgree ==
  (hOpen # NoOpen /\ hOpen.filename = hPath) => hOpen.hash \in WATCHED_PATHS

(***************************************************************************)
(* Claims about decode_chunked_body, checked under ChunkSpec               *)
(***************************************************************************)
\* the payload itself reads as chunk framing: its first line, up to the
\* first CRLF, is a non-zero hexadecimal number and bytes follow that CRLF
LooksChunked(payload) ==
  /\ find_crlf(payload, 1) # 0
  /\ parse_chunk_size(SubSeq(payload, 1, find_crlf(payload, 1) - 1)) > 0
  /\ find_crlf(payload, 1) + 1 < Len(payload)

\* C20: for every payload P and every correct chunked encoding E of P,
\* decoding the result of decode_chunked_body(E) again yields the same bytes.
C20_DecodeIdempotent ==
  Len(cDecoded) = 2 => cDecoded[2] = cDecoded[1]

\* C20, amended: the same for every payload that does not itself read as
\* chunk framing.
C20_DecodeIdempotentUnlessFramed ==
  (Len(cDecoded) = 2 /\ ~LooksChunked(cPayload)) => cDecoded[2] = cDecoded[1]

\* a payload holding a CRLF that is not chunk framing was cut into two
\* chunks and decoded twice
C20_Witness ==
  /\ Len(cDecoded) = 2
  /\ cPayload = <<120, 13, 10, 49>>
  /\ cEncoded = encode_chunked(cPayload, <<2, 2>>)
  /\ cDecoded[1] = cPayload

(***************************************************************************)
(* Claims about the JSON object extractor                                  *)
(***************************************************************************)
\* C21 as stated: for every buffer pfx json1 mid json2 sfx with json1 and
\* json2 valid JSON objects and pfx, mid, sfx any bytes, extract_h2_json_all
\* returns exactly json1 and json2, in that order.
C21_ExtractsBothObjects ==
  jResults.done => jResults.objects = <<jBuffer.json1, jBuffer.json2>>

NoOpenBrace(s) == \A i \in 1..Len(s) : s[i] # 123

\* C21 as amended: when pfx, mid and sfx hold no opening brace, the extractor
\* returns exactly json1 and json2, in that order, whatever else they hold
\* and whatever braces, quotes and backslashes the strings of the objects hold.
C21_ExtractsBothObjectsBetweenBraceFreeBytes ==
  (/\ jResults.done
   /\ NoOpenBrace(jBuffer.pfx) /\ NoOpenBrace(jBuffer.mid) /\ NoOpenBrace(jBuffer.sfx))
    => jResults.objects = <<jBuffer.json1, jBuffer.json2>>

\* {"":"}"} between a quote and a closing brace, then the nested {"":{}}
C21_Witness ==
  /\ jResults.done
  /\ jBuffer.pfx = <<34>> /\ jBuffer.mid = <<125>> /\ jBuffer.sfx = <<>>
  /\ jBuffer.json1 = <<123, 34, 34, 58, 34, 125, 34, 125>>
  /\ jBuffer.json2 = <<123, 34, 34, 58, 123, 125, 125>>
  /\ jResults.objects = <<jBuffer.json1, jBuffer.json2>>

(***************************************************************************)
(* Claims about the SSL_EVENTS handler and the sweeper                     *)
(***************************************************************************)
\* the event is handshake-flagged, has length zero or has an unfilled buffer
IsDroppedKind(ev) == ev.is_handshake = 1 \/ ev.len = 0 \/ ev.buf_filled = 0

\* the step delivers one more frame for key k
Delivers(k) == hist'[k] # hist[k]

\* C22: a TLS event that is handshake-flagged, has length zero, or has an
\* unfilled buffer neither creates a stream entry nor changes the state,
\* buffers or last-activity time of any existing stream (and logs nothing).
C22_DroppedEventLeavesStreams ==
  [][\A k \in Keys :
       (Delivers(k) /\ IsDroppedKind(hist'[k][Len(hist'[k])]))
         => streams' = streams /\ emitted' = emitted]_vars

\* an unfilled event was delivered for a thread without an entry while the
\* map holds the entry of another thread, and a zero-length one for that
\* other thread
C22_Witness ==
  \E k \in Keys, o \in DOMAIN streams :
    /\ k \notin DOMAIN streams
    /\ hist[k] # <<>>
    /\ \A i \in 1..Len(hist[k]) : hist[k][i].buf_filled = 0 /\ hist[k][i].is_handshake = 0
    /\ Len(hist[o]) > 1
    /\ hist[o][Len(hist[o])].len = 0
    /\ clock > 0

\* the step is a round of the sweeper: no frame is delivered, no time passes
IsSweep == hist' = hist /\ clock' = clock

\* the step hands a frame of key k to handle_event
Handles(k) == Delivers(k) /\ ~IsDroppedKind(hist'[k][Len(hist'[k])])

\* last_activity of an entry is the time of the most recent event handled
\* for its key: handle_event sets it, and nothing else changes it
LastActivityIsLastHandled ==
  /\ \A k \in Keys : Handles(k) => k \in DOMAIN streams' /\ streams'[k].last_activity = clock
  /\ \A k \in DOMAIN streams' :
       ~Handles(k) => k \in DOMAIN streams
                      /\ streams'[k].last_activity = streams[k].last_activity

C24_NegativeResultStaysCached ==
  /\ \A g \in negative : g \in DOMAIN cgroup_cache /\ cgroup_cache[g] = "none"
  /\ (rLast.op = "resolve" /\ rLast.wasNegative)
       => rLast.result = "none" /\ ~rLast.readProc

\* C25: immediately after each cleanup of the cgroup cache, every positive
\* entry refers to a container id that is in the pod store, and no negative
\* entry has been removed.
C25_CleanupKeepsLiveAndNegative ==
  rLast.op = "cleanup" =>
    /\ \A g \in DOMAIN cgroup_cache :
         cgroup_cache[g] # "none" => cgroup_cache[g] \in DOMAIN pod_store
    /\ \A g \in rLast.negatives : g \in DOMAIN cgroup_cache /\ cgroup_cache[g] = "none"

\* a cleanup has just evicted the entry of a container without a pod and
\* kept a negative entry
C25_Witness ==
  /\ rLast.op = "cleanup"
  /\ rLast.negatives # {}
  /\ 7 \in negative
  /\ 7 \notin DOMAIN cgroup_cache
  /\ pod_store = [c \in {} |-> "none"]

(***************************************************************************)
(* Claims about the latency thresholds                                     *)
(***************************************************************************)
\* C26: for each of the VFS-latency, runqueue and off-CPU probes, when the
\* probe is attached its configured threshold in ms (10 ms by default for
\* VFS), times 1,000,000, is under key 0 of its one-entry threshold map.
C26_ThresholdWrittenOnAttach ==
  \A p \in attached :
    /\ builtin[p].threshold_ms.some
         => thresholdMap[p] = insert(NoEntries, 0, builtin[p].threshold_ms.ms * 1000000)
    /\ (p = "vfs_latency" /\ ~builtin[p].threshold_ms.some)
         => thresholdMap[p] = insert(NoEntries, 0, 10 * 1000000)

(***************************************************************************)
(* Claims about the provider registry                                      *)
(***************************************************************************)
\* pat occurs in s: s is some u, then pat, then some v
Occurs(pat, s) == \E a \in 0..Len(s), b \in 0..Len(s) : a <= b /\ SubSeq(s, a + 1, b) = pat

\* some configured pattern occurs in s, or none is configured
ListSatisfied(list, s) == list = <<>> \/ \E pat \in Range(list) : Occurs(pat, s)

Satisfying ==
  {i \in 1..Len(fpInput.providers) :
     /\ ListSatisfied(fpInput.providers[i].hosts, fpInput.host)
     /\ ListSatisfied(fpInput.providers[i].paths, fpInput.path)}

\* C27: find_provider(host, path) returns the first provider in registry
\* order for which some configured host substring occurs in host (or the host
\* list is empty) and some configured path substring occurs in path (or the
\* path list is empty), and none when no provider satisfies both.
C27_FirstMatchingProvider ==
  fpResult.done =>
    fpResult.index = IF Satisfying = {} THEN 0 ELSE Min(Satisfying)

\* the second of two providers is returned: the first one fails on its paths
C27_Witness ==
  /\ fpResult.done
  /\ fpResult.index = 2
  /\ fpInput.providers[1].hosts = <<>>
  /\ fpInput.providers[1].paths # <<>>
  /\ fpInput.providers[2].hosts # <<>>
  /\ fpInput.host # <<>>

\* the usage object of provider i exists in the response value, and v is
\* true of its prompt and of its completion token field
Qualifies(i, ok(_)) ==
  LET c == with_defaults[i]
      usage == get(prValue, c.usage_path[1])
  IN  /\ usage # Absent
      /\ ok(get(usage, c.prompt_tokens[1]))
      /\ ok(get(usage, c.completion_tokens[1]))

IsNumeric(v) == v.t = "num"
IsCount(v) == v.t = "num" /\ v.kind = "u64"

\* the result is the record of provider i
RecordOf(i) ==
  LET c == with_defaults[i]
      usage == get(prValue, c.usage_path[1])
  IN  /\ prResult.info.some
      /\ prResult.info.prompt_tokens = get(usage, c.prompt_tokens[1]).v
      /\ prResult.info.completion_tokens = get(usage, c.completion_tokens[1]).v

ZeroRecord ==
  /\ prResult.info.some
  /\ prResult.info.prompt_tokens = 0 /\ prResult.info.completion_tokens = 0
  /\ ~prResult.info.thoughts_tokens.some /\ ~prResult.info.model.some

\* the result the claim describes, ok being what it asks of a token field
Described(ok(_)) ==
  LET Q == {i \in 1..Len(with_defaults) : Qualifies(i, ok)}
  IN  IF get(prValue, "error") # Absent THEN ZeroRecord
      ELSE IF Q = {} THEN ~prResult.info.some
      ELSE RecordOf(Min(Q))

\* C28 as stated: parsing a response value yields a zero-token record without
\* model whenever a top-level error field is present; otherwise the record of
\* the first provider whose usage object exists with both the prompt and the
\* completion token field present and numeric; nothing when none qualifies.
C28_FirstProviderWithNumericTokens == prResult.done => Described(IsNumeric)

\* C28 as amended: the same, the two token fields being present and
\* non-negative integers (a float or a negative number does not qualify).
C28_FirstProviderWithTokenCounts == prResult.done => Described(IsCount)

\* the openai fields are a float and a count, the anthropic fields are
\* counts: the anthropic record is the result
C28_Witness ==
  /\ prResult.done
  /\ get(prValue, "error") = Absent
  /\ get(get(prValue, "usage"), "prompt_tokens") = Num("f64", 10)
  /\ get(get(prValue, "usage"), "completion_tokens") = Num("u64", 20)
  /\ RecordOf(2)
  /\ prResult.info.prompt_tokens = 11

\* what follows the second colon of the line: the path field
PathField ==
  LET colons == {i \in 1..Len(cgLine) : cgLine[i] = ":"}
      second == {i \in colons : Cardinality({j \in colons : j < i}) = 1}
  IN  IF second = {} THEN <<>>
      ELSE SubSeq(cgLine, (CHOOSE i \in second : TRUE) + 1, Len(cgLine))
HasPathField == Cardinality({i \in 1..Len(cgLine) : cgLine[i] = ":"}) >= 2

Holds(s, word) == \E i \in 1..(Len(s) - Len(word) + 1) : SubSeq(s, i, i + Len(word) - 1) = word
LooksLikeContainerPath ==
  Holds(PathField, kubepods) \/ Holds(PathField, docker) \/ Holds(PathField, containerd)

\* the last n characters of s
Suffix(s, n) == SubSeq(s, Len(s) - n + 1, Len(s))
LastSegment ==
  CHOOSE seg \in {Suffix(PathField, n) : n \in 0..Len(PathField)} :
    /\ \A i \in 1..Len(seg) : seg[i] # "/"
    /\ Len(seg) = Len(PathField) \/ PathField[Len(PathField) - Len(seg)] = "/"

IsHex64(s) == Len(s) = 64 /\ \A i \in 1..Len(s) : s[i] \in ascii_hexdigit

\* seg is name-<id>.scope: the part after the last dash of the name that
\* ends in .scope
AfterLastDash(seg) ==
  LET name == SubSeq(seg, 1, Len(seg) - Len(dot_scope))
  IN  {Suffix(name, n) : n \in {m \in 0..(Len(name) - 1) :
         /\ name[Len(name) - m] = "-"
         /\ \A i \in (Len(name) - m + 1)..Len(name) : name[i] # "-"}}
\* seg with every .scope at its end removed
Unscoped(seg) ==
  CHOOSE name \in {SubSeq(seg, 1, n) : n \in 0..Len(seg)} :
    /\ ~ends_with(name, dot_scope)
    /\ \E k \in 0..Len(seg) : seg = name \o HexId(k * Len(dot_scope), dot_scope)
\* the part of name after its last dash, all of it when it has no dash
AfterLastDashOrAll(name) ==
  CHOOSE part \in {Suffix(name, n) : n \in 0..Len(name)} :
    /\ \A i \in 1..Len(part) : part[i] # "-"
    /\ Len(part) = Len(name) \/ name[Len(name) - Len(part)] = "-"

\* the container ids the claim as stated finds in the last segment
StatedIds ==
  {id \in {LastSegment} : IsHex64(id)} \cup
  {id \in (IF ends_with(LastSegment, dot_scope) THEN AfterLastDash(LastSegment) ELSE {}) :
     IsHex64(id)}
\* the container ids the amended claim finds in the last segment
AmendedIds ==
  {id \in {LastSegment} : IsHex64(id)} \cup
  {id \in (IF ends_with(LastSegment, dot_scope)
           THEN {AfterLastDashOrAll(Unscoped(LastSegment))} ELSE {}) : IsHex64(id)}

ShortIdExactlyOf(ids) ==
  cgResult.done =>
    IF HasPathField /\ LooksLikeContainerPath /\ ids # {}
    THEN /\ cgResult.id.some
         /\ \E id \in ids : cgResult.id.s = SubSeq(id, 1, 12)
    ELSE ~cgResult.id.some

\* C29 as stated: the line parser returns the first 12 hex characters of the
\* container id exactly when the third colon-separated field contains
\* kubepods, docker or containerd and its last path segment is either a
\* 64-character hex string or a name ending in .scope whose part after the
\* last dash is a 64-character hex string; for every other line, none.
C29_ShortIdOfHexOrDashedScope == ShortIdExactlyOf(StatedIds)

\* C29 as amended: the same, the scope name being read with every trailing
\* .scope removed and, when it has no dash, as a whole.
C29_ShortIdOfHexOrScope == ShortIdExactlyOf(AmendedIds)

\* a systemd scope of containerd below kubepods has been read
C29_Witness ==
  /\ cgResult.done
  /\ Holds(PathField, kubepods)
  /\ ends_with(LastSegment, dot_scope)
  /\ Holds(LastSegment, <<"c", "r", "i", "-">>)
  /\ cgResult.id = SomeStr(<<"a", "1", "b", "2", "c", "3", "d", "4", "e", "5", "f", "6">>)

\* what each source gives in the environment env, in the order of the claim:
\* the YAML file, the inline JSON, the defaults
SourcesOf(env) ==
  << IF env.file_var.set /\ env.file.readable /\ env.file.content.ok
     THEN <<env.file.content.providers>> ELSE <<>>,
     IF env.inline.set /\ env.inline.text.ok
     THEN <<env.inline.text.providers>> ELSE <<>>,
     << <<"openai", "anthropic", "gemini">> >> >>

\* C30: each load takes the registry from the first source that loads
\* successfully in the order YAML file, inline JSON, built-in defaults: a
\* source that is unset, unreadable or unparsable is passed over, and the
\* three built-in providers are used when both fail or are unset.
C30_FirstSourceThatLoads ==
  \A k \in Lazies :
    regLazy[k].done =>
      LET sources == SourcesOf(regLazy[k].env)
          first == Min({i \in 1..Len(sources) : sources[i] # <<>>})
      IN  regLazy[k].registry = sources[first][1]

\* a load passed over an unparsable file and took the inline JSON; the other
\* load, after the file had changed, took the file
C30_Witness ==
  /\ regLazy["CACHED_PROVIDERS"].done
  /\ regLazy["CACHED_PROVIDERS"].env.file = Content(BadDocument)
  /\ regLazy["CACHED_PROVIDERS"].registry = <<"inline-a", "inline-b">>
  /\ regLazy["PROVIDER_REGISTRY"].done
  /\ regLazy["PROVIDER_REGISTRY"].registry = <<"file-a">>

(***************************************************************************)
(* Claims about the steps of a stream's state                              *)
(***************************************************************************)
\* a parser detects a request in the write buffer
RequestDetected(buf) == Http11_detect_request(buf) \/ Http2_detect_request(buf)

\* the step from spPrev to sp is one of the steps of the claim, on its event
NamedStep ==
  LET e == spHist[Len(spHist)]
  IN  \/ /\ spPrev.state = "Detecting" /\ sp.state = "ProcessingRequest"
         /\ RequestDetected(sp.write_buf)
      \/ /\ spPrev.state = "Detecting" /\ sp.state = "Finished"
         /\ ~RequestDetected(sp.write_buf)
         /\ ByteLen(sp.write_buf) > DETECTION_BUFFER_THRESHOLD
      \/ /\ spPrev.state = "ProcessingRequest" /\ sp.state = "ProcessingResponse"
         /\ e.direction = "Read"
      \/ /\ spPrev.state = "ProcessingResponse" /\ sp.state = "Finished"
         /\ e.direction = "Read"
         /\ parse_response(spPrev.parser, sp.read_buf)
      \/ /\ spPrev.state = "Finished" /\ sp.state \in {"Detecting", "ProcessingRequest"}
         /\ e.direction = "Write"
      \/ /\ sp.state = "Detecting"
         /\ LastWouldExceed

\* C31: a stream's state changes only by the named steps, each on its event
\* (a detected request, more than 4096 undetected bytes, a read, a read
\* whose response parse succeeds, a write on a Finished stream, a buffer
\* overflow); a write that does not overflow leaves a stream that is in
\* ProcessingRequest or ProcessingResponse in that state.
C31_OnlyNamedSteps ==
  spHist # <<>> =>
    /\ sp.state # spPrev.state => NamedStep
    /\ ( /\ spHist[Len(spHist)].direction = "Write"
         /\ spPrev.state \in {"ProcessingRequest", "ProcessingResponse"}
         /\ ~LastWouldExceed ) => sp.state = spPrev.state

\* the last event was a write appended to the buffer of a stream that was
\* Detecting, or Finished and reset by it, and no parser detects a request
LastWriteUndetected ==
  /\ spHist # <<>>
  /\ spHist[Len(spHist)].direction = "Write"
  /\ spPrev.state \in {"Detecting", "Finished"}
  /\ ~LastWouldExceed
  /\ ~RequestDetected(sp.write_buf)

\* C32: a stream that is Detecting after an event holds at most 4096 bytes in
\* its write buffer; a write that takes the buffer beyond 4096 bytes with no
\* request detected leaves the stream Finished.
C32_DetectingHoldsAtMostThreshold ==
  /\ sp.state = "Detecting" => ByteLen(sp.write_buf) <= 4096
  /\ (LastWriteUndetected /\ ByteLen(sp.write_buf) > 4096) => sp.state = "Finished"

\* a Detecting stream that held exactly 4096 undetected bytes has been moved
\* to Finished by one more write
C32_Witness ==
  /\ LastWriteUndetected
  /\ spPrev.state = "Detecting"
  /\ ByteLen(spPrev.write_buf) = 4096
  /\ ByteLen(sp.write_buf) > 4096
  /\ sp.state = "Finished"

(***************************************************************************)
(* Claims about the exec queue and its wake-ups                            *)
(***************************************************************************)
\* the controller has left the discovery loop
ShutdownIntervened == pc \in {"shutdown_metrics", "request_shutdown", "done"}

\* the step in which the controller drains the queue
DrainsWholeQueue == (pc = "drain" /\ pc' # pc) => (batch' = queue /\ queue' = <<>>)

\* C33: every pid accepted into the exec queue is eventually removed by a
\* drain and passed to attach_new_targets_for_pids, in the order of its
\* acceptance, unless the controller leaves the loop first; each drain takes
\* the whole queue as one batch.
C33_AcceptedPidsArePassedInOrder ==
  /\ [](passed \o batch \o queue = accepted)
  /\ [][DrainsWholeQueue]_vars
  /\ \A n \in 1..MaxExecs :
       (Len(accepted) >= n) ~> (Len(passed) >= n \/ ShutdownIntervened)

\* one pid was accepted during the batch wait of another, a second wake-up
\* followed the first batch, and both pids have been passed in order
C33_Witness ==
  /\ Len(passed) = 2
  /\ passed = accepted
  /\ passed[1] # passed[2]
  /\ lastAttach.known0 # {}
  /\ pc = "select"
  /\ ~permit

(***************************************************************************)
(* Claims about the VFS latency probes                                     *)
(***************************************************************************)
\* the threshold in force: the value under key 0, or 10 ms
ThresholdInForce ==
  IF 0 \in DOMAIN thresholdMap["vfs_latency"]
  THEN thresholdMap["vfs_latency"][0] ELSE 10000000

\* the last probe that ran was a vfs exit probe and it submitted an event
VfsExitEmitted ==
  lastProbe.kind = "exit" /\ lastProbe.map = "vfs" /\ lastProbe.emitted

\* C34: a vfs_read exit submits an event only if the call returned no error,
\* the file is a regular file, and at least 1 MiB was read or the call took at
\* least the threshold; a vfs_write exit submits one only if the call
\* returned no error and took at least the threshold; the threshold is the
\* value under key 0 of VFS_THRESHOLD_NS, or 10 ms when the key is absent.
C34_VfsEventOnlyIfQualified ==
  /\ VfsExitEmitted =>
       /\ lastProbe.ret >= 0
       /\ lastProbe.op = "vfs_read" =>
            /\ lastProbe.file.kind = "regular"
            /\ lastProbe.ret >= 1048576 \/ lastProbe.took >= ThresholdInForce
       /\ lastProbe.op = "vfs_write" => lastProbe.took >= ThresholdInForce
  /\ \A e \in VFS_EVENTS :
       /\ e.op_type = VFS_OP_READ =>
            /\ e.filename = "regular"
            /\ e.bytes >= 1048576 \/ e.latency_ns >= ThresholdInForce
       /\ e.op_type = VFS_OP_WRITE => e.latency_ns >= ThresholdInForce

\* a short read of a regular file that took 5 ms was reported under a
\* configured threshold of 5 ms
C34_Witness ==
  /\ VfsExitEmitted
  /\ lastProbe.op = "vfs_read"
  /\ lastProbe.ret = 512
  /\ lastProbe.took = 5000000
  /\ ThresholdInForce = 5000000

(***************************************************************************)
(* Claims about the bytes handed to the response parser                    *)
(***************************************************************************)
\* the processor after the first n events of the stream
RECURSIVE ProcessorAfter(_)
ProcessorAfter(n) ==
  IF n = 0 THEN new
  ELSE handle_event(ProcessorAfter(n - 1), spHist[n].direction, spHist[n].data, n).p

\* the event on which the request of the stream was last detected
DetectedAt ==
  CHOOSE n \in 1..Len(spHist) :
    /\ ProcessorAfter(n).state = "ProcessingRequest"
    /\ ProcessorAfter(n - 1).state # "ProcessingRequest"
    /\ \A m \in (n + 1)..Len(spHist) :
         ~(/\ ProcessorAfter(m).state = "ProcessingRequest"
           /\ ProcessorAfter(m - 1).state # "ProcessingRequest")

\* the payloads of the read events after event n, in order
RECURSIVE ReadsAfter(_)
ReadsAfter(n) ==
  IF n >= Len(spHist) THEN <<>>
  ELSE IF spHist[n + 1].direction = "Read"
  THEN <<spHist[n + 1].data>> \o ReadsAfter(n + 1)
  ELSE ReadsAfter(n + 1)

\* the last event moved the stream into ProcessingResponse
EntersProcessingResponse ==
  sp.state = "ProcessingResponse" /\ spPrev.state = "ProcessingRequest"

\* C35: when a stream enters ProcessingResponse its read buffer holds exactly
\* the payloads of the read events that arrived after the request was
\* detected; nothing read while the stream was Detecting is in it.
C35_ResponseBufferStartsAtDetection ==
  EntersProcessingResponse => sp.read_buf = ReadsAfter(DetectedAt)

(***************************************************************************)
(* Claims about the locks of the resolver                                  *)
(***************************************************************************)
\* p waits for a lock that it cannot get in this state
LockBlocked(p) ==
  LET at == rwlock.proc[p].pc IN
  \/ at \in ReadPcs /\ ~CanRead(WantedLock(at))
  \/ at \in WritePcs /\ ~CanWrite(WantedLock(at))

\* those that must move before p can get the lock it waits for
LockBlockers(p) ==
  LET at == rwlock.proc[p].pc
      l == WantedLock(at)
      holders == (rwlock[l].readers \cup {rwlock[l].writer}) \ {"none"}
  IN  IF at \in WritePcs THEN holders
      ELSE holders \cup (IF rwlock.writers_first THEN WaitingWriters(l) ELSE {})

\* some operations wait for one another and none of them can move again
LockDeadlock ==
  \E S \in SUBSET LockProcs :
    /\ S # {}
    /\ \A p \in S : LockBlocked(p) /\ LockBlockers(p) # {} /\ LockBlockers(p) \subseteq S

\* C36: resolve, the pod-event handler and the cache sweep never deadlock on
\* the cgroup-cache and pod-store locks, also when a waiting writer blocks new
\* readers: no set of started operations waits for locks that only its own
\* members can release.
C36_NoLockDeadlock == ~LockDeadlock

(***************************************************************************)
(* Claims about the pod store                                              *)
(***************************************************************************)
\* the watcher is between two pod events
WatcherQuiet == rwlock.proc["watcher"].pc = "idle"

\* container id c is mapped to the pod that has it now
CurrentContainer(c) ==
  /\ pod_store[c] \in DOMAIN node
  /\ c \in node[pod_store[c]]

\* C37: after any sequence of pod Apply and Delete events the pod store maps
\* only container ids of pods that are present, with their current
\* containers: no id of a replaced container or of a deleted pod remains.
C37_StoreHoldsCurrentContainersOnly ==
  WatcherQuiet => \A c \in DOMAIN pod_store : CurrentContainer(c)

(***************************************************************************)
(* Claims about the SSL_EVENTS drainer                                     *)
(***************************************************************************)
\* SSL uprobes are attached to at least one library
SslProbesAttached == \E p \in Paths : \E s \in Steps : links[p][s] > 0

\* the engine runs: attach_probes returned Ok and no shutdown was requested
EngineRuns == pc \notin {"start", "failed"} /\ ~shutdown

\* C38: whenever LLM probing is enabled and SSL uprobes are attached to at
\* least one library, at startup or later by the discovery loop, the drainer
\* of SSL_EVENTS is running, also when the startup scan found no library.
C38_DrainerRunsWhileAttached ==
  (settings.llm /\ SslProbesAttached /\ EngineRuns) => worker["ssl"] \in {"check", "drain"}

(***************************************************************************)
(* Claims about the identity of a discovered library                       *)
(***************************************************************************)
\* The processes of the model run in the mount namespace of the host:
\* /proc/<p>/root is the root directory, so two paths name the same library
\* file when they agree after the root.
SameFile(p, q) == p.file = q.file

\* the paths through which SSL uprobes were attached
InstrumentedPaths == {p \in Paths : \E s \in Steps : links[p][s] > 0}

\* C39: a library file that has been instrumented is not instrumented again
\* through another process that maps it, nor when both the dynamic-linker
\* cache and a process scan report it: uprobes are attached to a file through
\* one path only.
C39_FileInstrumentedThroughOnePath ==
  \A p, q \in InstrumentedPaths : SameFile(p, q) => p = q

(***************************************************************************)
(* Claims about the SSL sessions of a thread                               *)
(***************************************************************************)
\* the call that returned last was a read or write that returned a positive
\* length, and its exit probe got a slot and could read user memory
RwCallReturnedData ==
  /\ sslLast.fn \in SslRwFns
  /\ sslLast.ret > 0
  /\ sslLast.len > 0
  /\ sslLast.probes_ok

\* C40: for every SSL_read or SSL_write that returns a positive length and
\* whose entry probe ran, the exit probe emits an event with the buffer of
\* that call (buf_filled = 1) and the time that call took, also when
\* SSL_do_handshake is entered and returns on the same thread in between.
C40_ExitEmitsOwnBufferAndLatency ==
  RwCallReturnedData =>
    /\ sslLast.emitted
    /\ sslLast.event.buf_filled = 1
    /\ sslLast.event.buf_addr = sslLast.buf
    /\ sslLast.event.latency_ns = sslLast.end - sslLast.start

====
